---- MODULE Spec2Model ----
(***************************************************************************)
(* Model of the rag-search multi-agent legal research program.             *)
(*                                                                         *)
(*  Part 1  NativeGeminiClient.create and its tenacity retry layer         *)
(*          (src/src/native_gemini_client.py).                             *)
(*  Part 2  The agent turn (AssistantAgent built by src/src/agents/*.py).  *)
(*  Part 3  The team run (RoundRobinGroupChat and the termination          *)
(*          conditions built in src/src/main.py and                        *)
(*          src/tests/run_evaluation.py).                                  *)
(*  Part 4  The two-phase workflow of src/src/main.py.                     *)
(*                                                                         *)
(* The repository drives three libraries whose behaviour is part of the    *)
(* program's behaviour: tenacity (the @retry decorator), requests (the     *)
(* transport) and autogen_agentchat / autogen_core 0.4 (AssistantAgent,    *)
(* RoundRobinGroupChat, the termination conditions, CreateResult).  Each   *)
(* definition that renders library behaviour says so in its comment and    *)
(* is mapped to the line of the repository that selects that behaviour.    *)
(***************************************************************************)
EXTENDS Integers, Sequences, FiniteSets, TLC

VARIABLES
    \* ---- Part 1: NativeGeminiClient.create ----
    cpc,             \* position of the create call: idle, request, sleep, parse, done
    attempt_number,  \* tenacity retry_state.attempt_number of the current call
    sleep,           \* retry_state.next_action.sleep, the wait about to be slept
    delays,          \* the waits slept by the current call, in order
    attempts,        \* what the backend did on each attempt of the current call
    data,            \* the JSON body returned by _make_api_request_with_retry
    outcome,         \* what the caller of create observes: a result or an error
    ncalls,          \* create calls started on this client so far
    \* ---- Parts 2 and 3: the team run ----
    client,          \* the model client the agents share: "openai" or "gemini"
    include_agent_event,  \* whether MaxMessageTermination counts agent events
    participants,    \* the team's agents, in order
    termination,     \* the termination condition the team was built with
    team_state,      \* Idle, Running, Completed, Failed, Stopped
    message_thread,  \* the transcript of the run
    current_speaker, \* index of the agent whose turn is in flight (0: none)
    next_speaker_index,   \* RoundRobinGroupChatManager._next_speaker_index
    message_count,   \* MaxMessageTermination._message_count
    text_terminated, \* TextMentionTermination._terminated
    invoked,         \* indexes of the agents invoked so far, in order
    response,        \* the Response of the latest agent turn
    run_error,       \* the exception that ended the run ("none": none)
    \* ---- Part 4: main ----
    mpc,             \* position of main: start, research, synthesis, done, exit, crashed
    env,             \* the environment: OPENAI_API_KEY, GEMINI_API_KEY
    research_result, \* the messages of the research run's TaskResult
    synthesis_task,  \* the task main gives the synthesis team
    \* ---- Part 5: the capabilities ----
    tool_pc,         \* position of a capability call: idle, called, done
    tool_call,       \* the capability called and its query
    tool_backend,    \* what the service behind the capability does
    tool_result,     \* what the capability returns or raises
    \* ---- Part 6: the evaluation batch ----
    epc,             \* position of run_evaluation: start, next, run, done, exit
    questions,       \* the queries of the batch, in order
    results,         \* run_evaluation's results list
    \* ---- Part 7: cancellation of a run ----
    cancelled,       \* an external cancellation signal has been raised
    discarded,       \* results of in-flight calls discarded after it
    \* ---- Part 8: the messages create sends ----
    messages,        \* the messages create was called with
    msg_index,       \* messages converted so far by the loop of create
    gemini_contents, \* the "contents" of the request
    system_instruction,  \* the system_instruction built by the loop
    payload,         \* the request body create sends
    \* ---- Part 9: the tools create declares ----
    tools,           \* the tools create was called with
    function_declarations,  \* the declarations built for the request
    \* ---- Part 10: create_stream ----
    spc,             \* position of create_stream: idle, awaiting, yielded, finished, failed
    emitted,         \* the chunks create_stream has yielded, in order
    stream_error,    \* the exception create_stream raised ("none": none)
    \* ---- Part 11: create calls of concurrent tasks ----
    running,         \* the task the event loop is running (0: none)
    task_pc,         \* per task: ready, request, sleep, returned, raised, finished
    task_attempt,    \* per task: the attempt number of its create call
    task_calls,      \* per task: the create calls it has made
    total_usage,     \* NativeGeminiClient._total_usage
    returned_usage   \* the sum of the usage of the results returned so far

cvars == <<cpc, attempt_number, sleep, delays, attempts, data, outcome, ncalls>>

tvars == <<client, include_agent_event, participants, termination, team_state,
           message_thread, current_speaker, next_speaker_index, message_count,
           text_terminated, invoked, response, run_error>>

mvars == <<mpc, env, research_result, synthesis_task>>

rvars == <<tool_pc, tool_call, tool_backend, tool_result>>

\* The variables of Part 5 and later, which Parts 1 to 4 leave alone.
evars == <<epc, questions, results>>

xvars == <<cancelled, discarded>>

qvars == <<messages, msg_index, gemini_contents, system_instruction, payload>>

hvars == <<tools, function_declarations>>

\* The variables of Part 9 and later.
svars == <<spc, emitted, stream_error>>

lvars == <<running, task_pc, task_attempt, task_calls, total_usage, returned_usage>>

nvars == <<hvars, svars, lvars>>

ovars == <<rvars, evars, xvars, qvars, nvars>>

vars == <<cvars, tvars, mvars, ovars>>

--------------------------------------------------------------------------
(* Bounds of the model.                                                    *)

\* create calls issued on one client
MaxCalls == 2
\* parts of one candidate of a backend response
MaxParts == 2
\* tool calls of one completion
MaxToolCalls == 2
\* agents of a team, and the largest max_messages, of the team runs explored
MaxAgents == 3
MaxN == 4
\* the longest transcript explored for a run whose condition sets no cap
MaxThread == 8

--------------------------------------------------------------------------
(* Part 1: the retry layer and create.                                     *)

\* stop=stop_after_attempt(5)
StopAfterAttempt == 5
\* wait=wait_exponential(multiplier=2, min=2, max=60)
WaitMultiplier == 2
WaitMin == 2
WaitMax == 60

Max2(a, b) == IF a >= b THEN a ELSE b
Min2(a, b) == IF a <= b THEN a ELSE b

\* tenacity.wait_exponential.__call__ with exp_base = 2:
\*   exp = 2 ** (attempt_number - 1); result = multiplier * exp
\*   return max(max(0, min), min(result, max))
wait_exponential_doubled(n) == Max2(Max2(0, WaitMin), Min2(WaitMultiplier * 2^n, WaitMax))
wait_exponential(n) == Max2(Max2(0, WaitMin), Min2(WaitMultiplier * 2^(n - 1), WaitMax))

\* stop_after_attempt.__call__: retry_state.attempt_number >= max_attempt_number
stop_after_attempt_late(n) == n > StopAfterAttempt
stop_after_attempt(n) == n >= StopAfterAttempt

\* HTTP statuses the backend may answer with.  429 is the throttling status;
\* 400 and 503 stand for the client and server error statuses.
Statuses == {200, 429, 400, 503}

\* Exception classes, by the name the caller sees.
\*   RateLimitError   native_gemini_client.RateLimitError
\*   RetryError       tenacity.RetryError, raised by the retry layer when it
\*                    stops (the decorator does not set reraise=True)
\*   HTTPError, ConnectionError   requests.exceptions.RequestException kinds
\*   ValueError       raised by create for a response it cannot parse
RequestExceptions == {"HTTPError", "ConnectionError"}

\* retry=retry_if_exception_type(RateLimitError)
retry_if_any_exception(exc) == TRUE
retry_if_exception_type(exc) == exc = "RateLimitError"

\* A response part: "text" and "functionCall" are the keys it may carry
\* (NoKey: the key is absent).
NoKey == "<absent>"
Texts == {"APPROVE", "APPROVED.", "Not approved: revise"}
FunctionNames == {"retrieve_legal_documents", "search_legal_updates"}
Parts == [text : Texts \cup {NoKey}, functionCall : FunctionNames \cup {NoKey}]

SeqsUpTo(S, n) == UNION {[1..k -> S] : k \in 0..n}

\* A response body.  shape says which of the keys create indexes are there.
Shapes == {"ok", "no_candidates", "empty_candidates", "no_content", "no_parts"}
Bodies ==
    [shape : {"ok"}, parts : SeqsUpTo(Parts, MaxParts)]
    \cup [shape : Shapes \ {"ok"}, parts : {<<>>}]

NoData == [shape |-> "none", parts |-> <<>>]

\* NativeGeminiClient._make_api_request: what one transport attempt yields.
\*   t.kind = "ConnectionError": requests.post raises
\*   t.status = 429: RateLimitError;  t.status >= 400: raise_for_status raises
\*   HTTPError;  otherwise response.json() is returned
make_api_request(t) ==
    IF t.kind = "ConnectionError" THEN [raised |-> "ConnectionError", body |-> NoData]
    ELSE IF t.status = 429 THEN [raised |-> "RateLimitError", body |-> NoData]
    ELSE IF t.status >= 400 THEN [raised |-> "HTTPError", body |-> NoData]
    ELSE [raised |-> "none", body |-> t.body]

\* What the backend may do on one attempt.
Transports ==
    [kind : {"response"}, status : {200}, body : Bodies]
    \cup [kind : {"response"}, status : Statuses \ {200}, body : {NoData}]
    \cup [kind : {"ConnectionError"}, status : {0}, body : {NoData}]

\* create, lines 151-153: indexing data["candidates"][0]["content"]["parts"][0]
\* raises KeyError or IndexError when a key or an element is missing, and the
\* handler of lines 207-209 raises ValueError instead.
ParseRaises(body) == body.shape # "ok" \/ Len(body.parts) = 0

\* create, lines 155-159: the text of the first part, "" when it has none.
content_text_of_any_part(body) ==
    LET texts == SelectSeq(body.parts, LAMBDA part : part.text # NoKey)
    IN IF texts # <<>> THEN texts[1].text ELSE ""
content_text(body) ==
    IF body.parts[1].text # NoKey THEN body.parts[1].text ELSE ""

\* create, lines 163-170: one FunctionCall per part that has a functionCall,
\* in part order.  The id is str(uuid.uuid4()), a fresh value per call: the
\* index of the part stands for it.
RECURSIVE function_calls(_, _)
function_calls(parts, i) ==
    IF i > Len(parts) THEN <<>>
    ELSE IF parts[i].functionCall # NoKey
         THEN <<[id |-> i, name |-> parts[i].functionCall]>> \o function_calls(parts, i + 1)
         ELSE function_calls(parts, i + 1)

\* autogen_core CreateResult declares finish_reason, content, usage and
\* cached (content: a str, or a list of FunctionCall).  It declares no
\* tool_calls field, and being a pydantic model it ignores the keyword: the
\* result create builds at lines 199-205 has a str content and carries
\* none of the calls collected in tool_calls.
CreateResult(content, tool_calls) ==
    [content_kind |-> "str", text |-> content, calls |-> <<>>]

NoResult == [content_kind |-> "none", text |-> "", calls |-> <<>>]

\* The exception the indexing of lines 152-153 raises for a body, by what
\* is missing: a KeyError names the key, an IndexError says the list is
\* too short.
indexing_error(body) ==
    CASE body.shape = "no_candidates" -> [type |-> "KeyError", detail |-> "'candidates'"]
      [] body.shape = "no_content" -> [type |-> "KeyError", detail |-> "'content'"]
      [] body.shape = "no_parts" -> [type |-> "KeyError", detail |-> "'parts'"]
      [] OTHER -> [type |-> "IndexError", detail |-> "list index out of range"]

\* What an exception carries: the text of its message, and the response
\* body when it is given one (NoData: no body).
NoArgs == [detail |-> "none", payload |-> NoData]

\* The handler of lines 207-209: the body is logged, and the exception
\* raised is ValueError(f"Invalid response format from Gemini: {e}").
parse_error_unhandled(e, body) ==
    [type |-> e.type, args |-> [detail |-> e.detail, payload |-> NoData]]
parse_error(e, body) ==
    [type |-> "ValueError", args |-> [detail |-> e.detail, payload |-> NoData]]

\* The outcome of a call: a result or an error with what it carries.  body
\* records the response body the outcome was parsed from.
NoOutcome == [kind |-> "none", error |-> "none", args |-> NoArgs,
              result |-> NoResult, body |-> NoData]

\* The error the caller of create observes when the retry layer raises exc:
\* `except requests.exceptions.RequestException: raise` re-raises request
\* errors; every other exception passes through the try block untouched.
CreateRaises(exc) == exc

\* The body of create is entered (line 61).  The retry state starts afresh
\* for the call.
CreateEnter ==
    /\ cpc = "idle"
    /\ ncalls < MaxCalls
    /\ cpc' = "request"
    /\ ncalls' = ncalls + 1
    /\ attempt_number' = 1
    /\ sleep' = 0
    /\ delays' = <<>>
    /\ attempts' = <<>>
    /\ data' = NoData
    /\ outcome' = NoOutcome

\* create is called.
CreateCall ==
    /\ CreateEnter
    /\ UNCHANGED <<tvars, mvars, ovars>>

\* One attempt of _make_api_request_with_retry: the call of
\* _make_api_request and tenacity's decision on its outcome.
ApiRequest(t) ==
    /\ cpc = "request"
    /\ attempts' = Append(attempts, t)
    /\ LET r == make_api_request(t) IN
       IF r.raised = "none"
       THEN /\ cpc' = "parse"
            /\ data' = r.body
            /\ UNCHANGED <<sleep, outcome>>
       ELSE IF ~retry_if_exception_type(r.raised)
       THEN \* not retried: the exception itself leaves the retry layer
            /\ cpc' = "done"
            /\ outcome' = [NoOutcome EXCEPT !.kind = "error",
                                            !.error = CreateRaises(r.raised)]
            /\ UNCHANGED <<sleep, data>>
       ELSE IF stop_after_attempt(attempt_number)
       THEN \* reraise is not set: the retry layer raises RetryError
            /\ cpc' = "done"
            /\ outcome' = [NoOutcome EXCEPT !.kind = "error",
                                            !.error = CreateRaises("RetryError")]
            /\ UNCHANGED <<sleep, data>>
       ELSE /\ cpc' = "sleep"
            /\ sleep' = wait_exponential(attempt_number)
            /\ UNCHANGED <<data, outcome>>
    /\ UNCHANGED <<attempt_number, delays, ncalls>>
    /\ UNCHANGED <<tvars, mvars, ovars>>

\* tenacity sleeps (time.sleep) and starts the next attempt.
Sleep ==
    /\ cpc = "sleep"
    /\ delays' = Append(delays, sleep)
    /\ attempt_number' = attempt_number + 1
    /\ cpc' = "request"
    /\ UNCHANGED <<sleep, attempts, data, outcome, ncalls>>
    /\ UNCHANGED <<tvars, mvars, ovars>>

\* create, lines 149-209: parse the body into a CreateResult.
Parse ==
    /\ cpc = "parse"
    /\ cpc' = "done"
    /\ outcome' =
         IF ParseRaises(data)
         THEN [NoOutcome EXCEPT !.kind = "error",
                                !.error = parse_error(indexing_error(data), data).type,
                                !.args = parse_error(indexing_error(data), data).args,
                                !.body = data]
         ELSE [NoOutcome EXCEPT !.kind = "result", !.body = data,
                                !.result = CreateResult(content_text(data),
                                                        function_calls(data.parts, 1))]
    /\ UNCHANGED <<attempt_number, sleep, delays, attempts, data, ncalls>>
    /\ UNCHANGED <<tvars, mvars, ovars>>

\* The caller has the outcome; the client is ready for another call.
CreateReturn ==
    /\ cpc = "done"
    /\ cpc' = "idle"
    /\ UNCHANGED <<attempt_number, sleep, delays, attempts, data, outcome, ncalls>>
    /\ UNCHANGED <<tvars, mvars, ovars>>

CreateInit ==
    /\ cpc = "idle"
    /\ attempt_number = 0
    /\ sleep = 0
    /\ delays = <<>>
    /\ attempts = <<>>
    /\ data = NoData
    /\ outcome = NoOutcome
    /\ ncalls = 0

CreateNext ==
    \/ CreateCall
    \/ \E t \in Transports : ApiRequest(t)
    \/ Sleep
    \/ Parse
    \/ CreateReturn

--------------------------------------------------------------------------
(* Part 2: the agent turn.  The agents are autogen_agentchat AssistantAgent *)
(* objects built by src/src/agents/*.py with a name, a system message, the  *)
(* shared model client and, for the Retriever, one tool.  None of them sets *)
(* reflect_on_tool_use, so a turn whose completion carries tool calls ends  *)
(* with a ToolCallSummaryMessage and makes no second create call.           *)

AllAgents == <<"Planner_Agent", "Retriever_Agent", "Analyzer_Agent",
               "Critic_Agent", "Synthesizer_Agent">>

\* tools=[retrieve_legal_documents] (agents/retriever.py:25); the other
\* agents of the teams are built without tools.
Tools(agent) ==
    IF agent = "Retriever_Agent" THEN {"retrieve_legal_documents"} ELSE {}

\* TextMentionTermination("APPROVE"): Python's `"APPROVE" in content`, a
\* case-sensitive substring test, on the contents the model uses.
MentionsIgnoringCase(content) ==
    content \in {"APPROVE", "APPROVED.", "evidence: APPROVE", "Not approved: revise"}
Mentions(content) == content \in {"APPROVE", "APPROVED.", "evidence: APPROVE"}

\* What a capability call may do: return a string or raise.
ToolReturns == {"evidence", "evidence: APPROVE", "raise"}

\* The completions the OpenAI client may hand an agent: a text, or for an
\* agent with tools a list of function calls whose ids the backend makes
\* distinct.
OpenAIResults(agent) ==
    {[content_kind |-> "str", text |-> t, calls |-> <<>>] : t \in Texts}
    \cup (IF Tools(agent) = {} THEN {}
          ELSE {[content_kind |-> "calls", text |-> "",
                 calls |-> [i \in 1..j |-> [id |-> i, name |-> names[i]]]] :
                   <<j, names>> \in UNION {{<<k, f>> : f \in [1..k -> FunctionNames]} :
                                             k \in 1..MaxToolCalls}})

\* The completions NativeGeminiClient.create returns: the parse of a body.
GeminiResults ==
    {CreateResult(content_text(b), function_calls(b.parts, 1)) :
       b \in {x \in Bodies : ~ParseRaises(x)}}

ModelResults(agent) ==
    IF client = "gemini" THEN GeminiResults ELSE OpenAIResults(agent)

\* The errors create may raise into the agent turn.
ModelErrors ==
    IF client = "gemini"
    THEN {"RetryError", "HTTPError", "ConnectionError", "ValueError"}
    ELSE {"APIError"}

\* AssistantAgent._execute_tool_call: the tool is looked up by name and run
\* inside a try block; any exception becomes a result with is_error set and
\* an "Error: ..." content, so no exception leaves the call (raised: one did).
execute_tool_call_unguarded(agent, call, ret) ==
    IF call.name \notin Tools(agent) \/ ret = "raise"
    THEN [call_id |-> call.id, content |-> "", is_error |-> FALSE, raised |-> TRUE]
    ELSE [call_id |-> call.id, content |-> ret, is_error |-> FALSE, raised |-> FALSE]
execute_tool_call(agent, call, ret) ==
    IF call.name \notin Tools(agent)
    THEN [call_id |-> call.id, content |-> "Error: tool not available",
          is_error |-> TRUE, raised |-> FALSE]
    ELSE IF ret = "raise"
    THEN [call_id |-> call.id, content |-> "Error: raised",
          is_error |-> TRUE, raised |-> FALSE]
    ELSE [call_id |-> call.id, content |-> ret, is_error |-> FALSE, raised |-> FALSE]

\* The results of the calls of one completion, in call order
\* (asyncio.gather keeps the order of the calls).
tool_results(agent, calls, rets) ==
    [i \in 1..Len(calls) |-> execute_tool_call(agent, calls[i], rets[i])]

NoResponse == [agent |-> "none", chat_type |-> "none", content |-> <<>>,
               calls |-> <<>>, rets |-> <<>>, results |-> <<>>, ncreate |-> 0,
               raised |-> FALSE]

\* AssistantAgent.on_messages: one create call; a str content is the
\* TextMessage of the turn; a list of calls is run and, reflect_on_tool_use
\* not being set, the turn ends with a ToolCallSummaryMessage joining the
\* results.  content holds the lines of the chat message, ncreate the create
\* calls made, raised whether an exception left the turn.
on_messages(agent, r, rets) ==
    IF r.content_kind = "str"
    THEN [agent |-> agent, chat_type |-> "TextMessage", content |-> <<r.text>>,
          calls |-> <<>>, rets |-> <<>>, results |-> <<>>, ncreate |-> 1,
          raised |-> FALSE]
    ELSE LET res == tool_results(agent, r.calls, rets) IN
         [agent |-> agent, chat_type |-> "ToolCallSummaryMessage",
          content |-> [i \in 1..Len(res) |-> res[i].content],
          calls |-> r.calls, rets |-> rets, results |-> res, ncreate |-> 1,
          raised |-> \E i \in 1..Len(res) : res[i].raised]

\* A transcript entry: who produced it, its type, and whether its content
\* contains the termination text.  Events carry a list, not a str.
Msg(source, type, mention) == [source |-> source, type |-> type, mention |-> mention]

ChatTypes == {"TextMessage", "ToolCallSummaryMessage"}

\* The messages a Response adds to the thread: its inner events, then its
\* chat message (BaseGroupChatManager.handle_agent_response).
Delta(resp) ==
    (IF resp.calls = <<>> THEN <<>>
     ELSE <<Msg(resp.agent, "ToolCallRequestEvent", FALSE),
            Msg(resp.agent, "ToolCallExecutionEvent", FALSE)>>)
    \o <<Msg(resp.agent, resp.chat_type,
             \E i \in 1..Len(resp.content) : Mentions(resp.content[i]))>>

--------------------------------------------------------------------------
(* Part 3: the team run.  RoundRobinGroupChat.run_stream(task) with a      *)
(* termination condition built from TextMentionTermination("APPROVE") and  *)
(* MaxMessageTermination(max_messages) (main.py:38-44, 63-68,              *)
(* run_evaluation.py:44-49).                                               *)

\* The conditions explored: kind "max" is MaxMessageTermination(n), "or" is
\* TextMentionTermination("APPROVE") | MaxMessageTermination(n), "and" is
\* TextMentionTermination("APPROVE") & MaxMessageTermination(n).
Terminations == [kind : {"max", "or", "and"}, max_messages : 1..MaxN]

\* MaxMessageTermination.__call__: the messages of the delta it counts.
CountedAfterSeed(delta) ==
    IF include_agent_event
    THEN Cardinality({i \in 1..Len(delta) : delta[i].source # "user"})
    ELSE Cardinality({i \in 1..Len(delta) :
                        delta[i].type \in ChatTypes /\ delta[i].source # "user"})
Counted(delta) ==
    IF include_agent_event THEN Len(delta)
    ELSE Cardinality({i \in 1..Len(delta) : delta[i].type \in ChatTypes})

\* TextMentionTermination.__call__: some message of the delta has the text.
TextFires(delta) == \E i \in 1..Len(delta) : delta[i].mention

\* The condition called on a delta: whether it signals stop, and the state
\* its parts are left in.  Or calls both parts.
MaxFiresExclusive(n, mc) == mc > n
MaxFires(n, mc) == mc >= n

\* a & b (AndTerminationCondition.__call__): the parts that have not
\* terminated yet are called on the delta; it stops when none of the called
\* parts returns None, so a part that fired at an earlier message stays
\* fired.
AndTerminationInstant(n, tt, mc, delta) ==
    [stop |-> TextFires(delta) /\ MaxFires(n, mc + Counted(delta)),
     tt |-> tt \/ TextFires(delta), mc |-> mc + Counted(delta)]
AndTermination(n, tt, mc, delta) ==
    LET textNow == ~tt /\ TextFires(delta)
        mcNew == IF MaxFires(n, mc) THEN mc ELSE mc + Counted(delta)
        maxNow == ~MaxFires(n, mc) /\ MaxFires(n, mcNew)
    IN  [stop |-> (tt \/ textNow) /\ (MaxFires(n, mc) \/ maxNow),
         tt |-> tt \/ textNow, mc |-> mcNew]

Evaluate(term, tt, mc, delta) ==
    LET n == term.max_messages
        mc2 == mc + Counted(delta)
    IN  CASE term.kind = "max" ->
               [stop |-> MaxFires(n, mc2), tt |-> tt, mc |-> mc2]
          [] term.kind = "or" ->
               [stop |-> TextFires(delta) \/ MaxFires(n, mc2),
                tt |-> tt \/ TextFires(delta), mc |-> mc2]
          [] term.kind = "and" -> AndTermination(n, tt, mc, delta)

\* RoundRobinGroupChatManager.select_speaker: the agent at
\* _next_speaker_index, which then advances and wraps.
NextIndexStuck(i, m) == i
NextIndex(i, m) == (i + 1) % m

\* The state of the run after the condition was evaluated: a stop signal
\* ends it, otherwise it goes on.
\* The outcome of evaluating the condition after `delta` was appended:
\* Completed (the condition is reset) or the next speaker is requested.
StateAfterNeverStops(stop) == "Running"
StateAfter(stop) == IF stop THEN "Completed" ELSE "Running"

AfterDelta(delta) ==
    LET e == Evaluate(termination, text_terminated, message_count, delta) IN
    IF StateAfter(e.stop) = "Completed"
    THEN /\ team_state' = "Completed"
         /\ message_count' = 0
         /\ text_terminated' = FALSE
         /\ current_speaker' = 0
         /\ UNCHANGED <<next_speaker_index, invoked>>
    ELSE /\ team_state' = "Running"
         /\ message_count' = e.mc
         /\ text_terminated' = e.tt
         /\ current_speaker' = next_speaker_index + 1
         /\ invoked' = Append(invoked, next_speaker_index)
         /\ next_speaker_index' = NextIndex(next_speaker_index, Len(participants))

\* A task: the template it is formatted from, the query put into it, and
\* the transcript messages put into it.  Neither template contains the
\* termination text, so a task contains it when its query or a message put
\* into it does.
Queries == {"Khoang san nhom III", "Thu tuc APPROVE du an"}
QueryMentions(q) == q = "Thu tuc APPROVE du an"

Task(template, q, msgs) == [template |-> template, query |-> q, transcript |-> msgs]
TaskMentions(task) ==
    \/ QueryMentions(task.query)
    \/ \E i \in 1..Len(task.transcript) : task.transcript[i].mention

\* task = f"Legal Query: {query}\nPlease plan and execute the research."
\* (main.py:52, run_evaluation.py:51)
ResearchTask(q) == Task("research", q, <<>>)

\* run_stream(task): the task becomes the first message of the thread
\* (source "user"), the condition is evaluated on it, and unless it stops
\* the run the first speaker is requested (handle_start).
RunStart(task) ==
    /\ team_state = "Idle"
    /\ message_thread' = <<Msg("user", "TextMessage", TaskMentions(task))>>
    /\ AfterDelta(<<Msg("user", "TextMessage", TaskMentions(task))>>)
    /\ UNCHANGED <<client, include_agent_event, participants, termination,
                   response, run_error>>
    /\ UNCHANGED <<cvars, mvars, ovars>>

\* self._message_thread.extend(delta): the thread after the messages of a
\* turn were added to it.
thread_assign(thread, delta) == delta
thread_extend(thread, delta) == thread \o delta

\* The agent in flight answers: its Response is appended to the thread and
\* the condition is evaluated on the messages added
\* (handle_agent_response).
AgentRespond(r, rets) ==
    /\ team_state = "Running"
    /\ Len(message_thread) < MaxThread \/ termination.kind # "and"
    /\ LET agent == participants[current_speaker]
           resp == on_messages(agent, r, rets)
       IN  /\ r \in ModelResults(agent)
           /\ rets \in [1..Len(r.calls) -> ToolReturns]
           /\ response' = resp
           /\ IF resp.raised
              THEN /\ team_state' = "Failed"
                   /\ run_error' = "ToolError"
                   /\ UNCHANGED <<message_thread, current_speaker, next_speaker_index,
                                  message_count, text_terminated, invoked>>
              ELSE /\ message_thread' = thread_extend(message_thread, Delta(resp))
                   /\ AfterDelta(Delta(resp))
                   /\ UNCHANGED run_error
    /\ UNCHANGED <<client, include_agent_event, participants, termination>>
    /\ UNCHANGED <<cvars, mvars, ovars>>

\* The create call of the agent in flight raises: the error leaves the
\* agent turn and ends the run.
AgentFail(err) ==
    /\ team_state = "Running"
    /\ err \in ModelErrors
    /\ team_state' = "Failed"
    /\ run_error' = err
    /\ UNCHANGED <<client, include_agent_event, participants, termination,
                   message_thread, current_speaker, next_speaker_index,
                   message_count, text_terminated, invoked, response>>
    /\ UNCHANGED <<cvars, mvars, ovars>>

AllResults == UNION {ModelResults(AllAgents[i]) : i \in 1..Len(AllAgents)}
AllRets == UNION {[1..k -> ToolReturns] : k \in 0..MaxToolCalls}

TeamNext ==
    \/ \E q \in Queries : RunStart(ResearchTask(q))
    \/ \E r \in AllResults, rets \in AllRets : AgentRespond(r, rets)
    \/ \E err \in ModelErrors : AgentFail(err)

\* RoundRobinGroupChat(participants, termination_condition): a team built
\* and not yet run.
TeamBuilt(agents, term) ==
    /\ participants = agents
    /\ termination = term
    /\ team_state = "Idle"
    /\ message_thread = <<>>
    /\ current_speaker = 0
    /\ next_speaker_index = 0
    /\ message_count = 0
    /\ text_terminated = FALSE
    /\ invoked = <<>>
    /\ response = NoResponse
    /\ run_error = "none"

\* The teams the program builds.
\*   research (main.py:38-44): four agents, TextMention | MaxMessage(12)
\*   evaluation (run_evaluation.py:37-49): the same agents, max_messages = 8
\*   synthesis (main.py:63-68): the Synthesizer, MaxMessage(2)
ResearchMaxMessages == 12
EvaluationMaxMessages == 8
SynthesisMaxMessages == 2

ResearchAgents == SubSeq(AllAgents, 1, 4)
SynthesisAgents == <<AllAgents[5]>>

ResearchTermination == [kind |-> "or", max_messages |-> ResearchMaxMessages]
EvaluationTermination == [kind |-> "or", max_messages |-> EvaluationMaxMessages]
SynthesisTermination == [kind |-> "max", max_messages |-> SynthesisMaxMessages]

ProgramTeams ==
    {<<ResearchAgents, ResearchTermination>>,
     <<ResearchAgents, EvaluationTermination>>,
     <<SynthesisAgents, SynthesisTermination>>}

\* The teams explored besides: up to MaxAgents agents under any condition
\* with max_messages up to MaxN.
OtherTeams ==
    {<<SubSeq(AllAgents, 1, m), term>> :
       m \in 1..Min2(MaxAgents, Len(AllAgents)), term \in Terminations}

\* No team: the state of the team variables while none is built.
NoTeam ==
    /\ client = "none"
    /\ include_agent_event = FALSE
    /\ TeamBuilt(<<>>, SynthesisTermination)

\* main is not running: the state of its variables under the other
\* specifications.
NoEnv == [OPENAI_API_KEY |-> "", GEMINI_API_KEY |-> ""]
NoTask == Task("none", "", <<>>)
NoMain ==
    /\ mpc = "none"
    /\ env = NoEnv
    /\ research_result = <<>>
    /\ synthesis_task = NoTask

\* One run of one team, with either client and either way of counting.
TeamInit ==
    /\ client \in {"openai", "gemini"}
    /\ include_agent_event \in BOOLEAN
    /\ \E team \in ProgramTeams \cup OtherTeams : TeamBuilt(team[1], team[2])

--------------------------------------------------------------------------
(* Part 4: main (src/src/main.py) and get_model_client (src/src/config.py). *)

OpenAIKeys == {"", "sk-...", "sk-...your-key", "sk-live"}
GeminiKeys == {"", "AIza"}
Envs == [OPENAI_API_KEY : OpenAIKeys, GEMINI_API_KEY : GeminiKeys]

\* api_key.startswith("sk-...") on the keys above.
StartsWithPlaceholderExact(key) == key = "sk-..."
StartsWithPlaceholder(key) == key \in {"sk-...", "sk-...your-key"}

\* get_model_client: the client it returns, or the ValueError it raises.
get_model_client(e) ==
    LET api_key == IF e.OPENAI_API_KEY # "" /\ StartsWithPlaceholder(e.OPENAI_API_KEY)
                   THEN "" ELSE e.OPENAI_API_KEY
    IN  IF api_key = "" /\ e.GEMINI_API_KEY # "" THEN "gemini"
        ELSE IF api_key = "" THEN "ValueError"
        ELSE "openai"

\* query = "Khoáng sản nhóm III"  # Hardcoded for testing (main.py:50)
Query == "Khoang san nhom III"

\* synthesis_task (main.py:71-75): an f-string of fixed text and {query}.
\* research_result is not used in it, so no message of the research run is
\* put into the task.
SynthesisTask(q, result) == Task("synthesis", q, <<>>)

\* RoundRobinGroupChat(participants=..., termination_condition=...)
BuildTeam(agents, term) ==
    /\ participants' = agents
    /\ termination' = term
    /\ team_state' = "Idle"
    /\ message_thread' = <<>>
    /\ current_speaker' = 0
    /\ next_speaker_index' = 0
    /\ message_count' = 0
    /\ text_terminated' = FALSE
    /\ invoked' = <<>>
    /\ response' = NoResponse
    /\ run_error' = "none"

\* main.py:19-44: the model client is made, or main prints the error and
\* returns; then the agents and the research team are built.
MainStart ==
    /\ mpc = "start"
    /\ LET c == get_model_client(env) IN
       IF c = "ValueError"
       THEN /\ mpc' = "exit"
            /\ UNCHANGED tvars
       ELSE /\ mpc' = "research"
            /\ client' = c
            /\ BuildTeam(ResearchAgents, ResearchTermination)
            /\ UNCHANGED include_agent_event
    /\ UNCHANGED <<env, research_result, synthesis_task>>
    /\ UNCHANGED <<cvars, ovars>>

\* main.py:57: research_team.run_stream(task=task)
RunResearch ==
    /\ mpc = "research"
    /\ RunStart(ResearchTask(Query))

\* `await Console(team.run_stream(...))` (main.py:57) returns a TaskResult
\* when the run has completed; an exception that ended the run is raised
\* by the await instead.
awaited_or_failed(state) == state \in {"Completed", "Failed"}
awaited(state) == state = "Completed"

\* main.py:57-75: the research run has ended; the synthesis team and its
\* task are built.
StartSynthesis ==
    /\ mpc = "research"
    /\ awaited(team_state)
    /\ research_result' = message_thread
    /\ synthesis_task' = SynthesisTask(Query, message_thread)
    /\ BuildTeam(SynthesisAgents, SynthesisTermination)
    /\ mpc' = "synthesis"
    /\ UNCHANGED <<client, include_agent_event, env>>
    /\ UNCHANGED <<cvars, ovars>>

\* main.py:77: synthesis_team.run_stream(task=synthesis_task)
RunSynthesis ==
    /\ mpc = "synthesis"
    /\ RunStart(synthesis_task)

\* main.py:79: the synthesis run has ended.
MainDone ==
    /\ mpc = "synthesis"
    /\ team_state = "Completed"
    /\ mpc' = "done"
    /\ UNCHANGED <<env, research_result, synthesis_task>>
    /\ UNCHANGED <<cvars, tvars, ovars>>

\* An error that ended a run leaves run_stream and main (no handler around
\* lines 57 and 77).
MainCrash ==
    /\ mpc \in {"research", "synthesis"}
    /\ team_state = "Failed"
    /\ mpc' = "crashed"
    /\ UNCHANGED <<env, research_result, synthesis_task>>
    /\ UNCHANGED <<cvars, tvars, ovars>>

MainInit ==
    /\ mpc = "start"
    /\ env \in Envs
    /\ research_result = <<>>
    /\ synthesis_task = NoTask
    /\ client = "none"
    /\ include_agent_event \in BOOLEAN
    /\ TeamBuilt(<<>>, SynthesisTermination)

MainNext ==
    \/ MainStart
    \/ RunResearch
    \/ \E r \in AllResults, rets \in AllRets : AgentRespond(r, rets)
    \/ \E err \in ModelErrors : AgentFail(err)
    \/ StartSynthesis
    \/ RunSynthesis
    \/ MainDone
    \/ MainCrash

--------------------------------------------------------------------------
(* Part 5: the capabilities (src/src/tools.py) and RagFlowClient.search    *)
(* (src/src/ragflow_client.py).                                            *)

\* documents of one retrieval response
MaxDocs == 2

\* An entry of the response's document list.  shape "str": the entry is not
\* a dict, so doc.get raises AttributeError.  content NoKey: neither
\* content key is there and "" is used; content "null": the key holds
\* null, which EvidenceItem (content: str) rejects with a ValidationError.
RagDocs ==
    [shape : {"dict"}, content : {"Dieu 5 Khoan 2", NoKey, "null"},
     doc_name : {"Luat Khoang san", NoKey}]
    \cup {[shape |-> "str", content |-> NoKey, doc_name |-> NoKey]}

\* A response body of the retrieval endpoint.
\*   json "invalid": response.json() raises;  json "list": the body is not a
\*   dict, so data.get raises AttributeError
\*   code: data.get("code");  data_kind: the "data" field: absent, a dict
\*   with "chunks", a list, a dict with "docs", or anything else
RagBodies ==
    [json : {"invalid", "list"}, code : {0}, data_kind : {"absent"}, docs : {<<>>}]
    \cup [json : {"dict"}, code : {0, 102}, data_kind : {"absent", "other"},
          docs : {<<>>}]
    \cup [json : {"dict"}, code : {0, 102}, data_kind : {"chunks", "list", "docs"},
          docs : SeqsUpTo(RagDocs, MaxDocs)]

RagStatuses == {200, 401, 500}

\* What requests.post does for one retrieval: it raises, or answers.
RagBackends ==
    [kind : {"ConnectionError", "Timeout"}, status : {0},
     body : {[json |-> "invalid", code |-> 0, data_kind |-> "absent", docs |-> <<>>]}]
    \cup [kind : {"response"}, status : RagStatuses, body : RagBodies]

\* EvidenceItem(content=..., document_name=..., ...) of one entry, or the
\* exception its construction raises.
EvidenceItem(doc) ==
    IF doc.shape # "dict" THEN [raises |-> "AttributeError", content |-> "", document_name |-> ""]
    ELSE IF doc.content = "null"
    THEN [raises |-> "ValidationError", content |-> "", document_name |-> ""]
    ELSE [raises |-> "none",
          content |-> IF doc.content = NoKey THEN "" ELSE doc.content,
          document_name |-> IF doc.doc_name = NoKey THEN "Unknown Document"
                            ELSE doc.doc_name]

EvidencePack(query, items, total_items) ==
    [kind |-> "pack", query |-> query, items |-> items, total_items |-> total_items,
     error |-> "none"]

Raised(exc) ==
    [kind |-> "raise", query |-> "", items |-> <<>>, total_items |-> 0, error |-> exc]

\* The try block of search (ragflow_client.py:56-113): the pack it returns
\* or the exception raised inside it.
search_try(query, b) ==
    IF b.kind # "response" THEN Raised(b.kind)
    ELSE IF b.status >= 400 THEN Raised("HTTPError")
    ELSE IF b.body.json = "invalid" THEN Raised("JSONDecodeError")
    ELSE IF b.body.json = "list" THEN Raised("AttributeError")
    ELSE IF b.body.code = 0 /\ b.body.data_kind \in {"chunks", "list", "docs"}
    THEN LET items == [i \in 1..Len(b.body.docs) |-> EvidenceItem(b.body.docs[i])] IN
         IF \E i \in 1..Len(items) : items[i].raises # "none"
         THEN Raised(items[CHOOSE i \in 1..Len(items) :
                              /\ items[i].raises # "none"
                              /\ \A j \in 1..(i - 1) : items[j].raises = "none"].raises)
         ELSE EvidencePack(query, items, Len(items))
    ELSE EvidencePack(query, <<>>, 0)

\* RagFlowClient.search: `except Exception` returns the empty pack.
search_unguarded(query, b) == search_try(query, b)
search(query, b) ==
    IF search_try(query, b).kind = "raise"
    THEN EvidencePack(query, <<>>, 0)
    ELSE search_try(query, b)

\* retrieve_legal_documents: client.search(...).model_dump()
retrieve_legal_documents(query, b) == search(query, b)

\* What DDGS().text does for one web search: it raises, or returns a list
\* of results; a result may lack one of the keys the capability reads.
WebResults == {"full", "no_body"}
WebBackends ==
    [kind : {"DuckDuckGoSearchException", "Timeout"}, results : {<<>>}]
    \cup [kind : {"results"}, results : SeqsUpTo(WebResults, MaxDocs)]

Str(message, entries) ==
    [kind |-> "str", query |-> "", items |-> entries, total_items |-> 0,
     error |-> message]

\* search_legal_updates (tools.py:40-57): the digest of the results, the
\* "not found" message, or the message made of the exception.
search_legal_updates_unguarded(query, w) ==
    IF w.kind # "results" THEN Raised(w.kind)
    ELSE IF w.results = <<>> THEN Str("Khong tim thay thong tin tren web.", <<>>)
    ELSE IF \E i \in 1..Len(w.results) : w.results[i] = "no_body"
    THEN Raised("KeyError")
    ELSE Str("digest", w.results)
search_legal_updates(query, w) ==
    IF w.kind # "results" THEN Str("Loi khi search web", <<w.kind>>)
    ELSE IF w.results = <<>> THEN Str("Khong tim thay thong tin tren web.", <<>>)
    ELSE IF \E i \in 1..Len(w.results) : w.results[i] = "no_body"
    THEN Str("Loi khi search web", <<"KeyError">>)
    ELSE Str("digest", w.results)

NoToolCall == [name |-> "none", query |-> ""]
NoBackend == [kind |-> "none"]
NoToolResult == [kind |-> "none", query |-> "", items |-> <<>>, total_items |-> 0,
                 error |-> "none"]

\* A capability is called with a query; the service behind it will do b.
ToolCall(name, query, b) ==
    /\ tool_pc = "idle"
    /\ \/ name = "retrieve_legal_documents" /\ b \in RagBackends
       \/ name = "search_legal_updates" /\ b \in WebBackends
    /\ tool_pc' = "called"
    /\ tool_call' = [name |-> name, query |-> query]
    /\ tool_backend' = b
    /\ tool_result' = NoToolResult
    /\ UNCHANGED <<cvars, tvars, mvars, evars, xvars, qvars, nvars>>

\* The capability returns to its caller, or raises.
ToolReturn ==
    /\ tool_pc = "called"
    /\ tool_pc' = "done"
    /\ tool_result' =
         IF tool_call.name = "retrieve_legal_documents"
         THEN retrieve_legal_documents(tool_call.query, tool_backend)
         ELSE search_legal_updates(tool_call.query, tool_backend)
    /\ UNCHANGED <<tool_call, tool_backend>>
    /\ UNCHANGED <<cvars, tvars, mvars, evars, xvars, qvars, nvars>>

ToolsInit ==
    /\ tool_pc = "idle"
    /\ tool_call = NoToolCall
    /\ tool_backend = NoBackend
    /\ tool_result = NoToolResult

ToolsNext ==
    \/ \E name \in FunctionNames, query \in Queries, b \in RagBackends \cup WebBackends :
          ToolCall(name, query, b)
    \/ ToolReturn

--------------------------------------------------------------------------
(* Part 6: the evaluation batch (src/tests/run_evaluation.py).             *)

\* run_evaluation(question_ids=None, max_questions=3): questions[:max_questions]
max_questions == 3

\* What run_single_query stores of a streamed message:
\* {"source": event.source, "content": str(event.content)[:500]}.  The
\* content is kept as the kind of value it is the (truncated) string of.
Collected(m) ==
    [source |-> m.source,
     content |-> IF m.type = "ToolCallRequestEvent" THEN "str(calls)"
                 ELSE IF m.type = "ToolCallExecutionEvent" THEN "str(results)"
                 ELSE "str"]

\* run_single_query (run_evaluation.py:53-73), with question added by
\* run_evaluation (line 183): the entry of a run that ended in `state` with
\* the messages of `thread` streamed; a failed run has no message_count.
run_single_query_losing_messages(query, state, error, thread) ==
    IF state = "Failed"
    THEN [question |-> query, success |-> FALSE, error |-> error,
          messages |-> <<>>, message_count |-> -1]
    ELSE [question |-> query, success |-> TRUE, error |-> "none",
          messages |-> [i \in 1..Len(thread) |-> Collected(thread[i])],
          message_count |-> Len(thread)]
run_single_query(query, state, error, thread) ==
    IF state = "Failed"
    THEN [question |-> query, success |-> FALSE, error |-> error,
          messages |-> [i \in 1..Len(thread) |-> Collected(thread[i])],
          message_count |-> -1]
    ELSE [question |-> query, success |-> TRUE, error |-> "none",
          messages |-> [i \in 1..Len(thread) |-> Collected(thread[i])],
          message_count |-> Len(thread)]

\* run_evaluation.py:155-176: the client is made, or the function prints
\* the error and returns.
EvalStart ==
    /\ epc = "start"
    /\ LET c == get_model_client(env) IN
       IF c = "ValueError"
       THEN epc' = "exit" /\ UNCHANGED client
       ELSE epc' = "next" /\ client' = c
    /\ UNCHANGED <<questions, results>>
    /\ UNCHANGED <<include_agent_event, participants, termination, team_state,
                   message_thread, current_speaker, next_speaker_index,
                   message_count, text_terminated, invoked, response, run_error>>
    /\ UNCHANGED <<cvars, mvars, rvars, xvars, qvars, nvars>>

\* run_evaluation.py:178-182, 39-49: the next question's agents and team.
EvalBuildTeam ==
    /\ epc = "next"
    /\ Len(results) < Len(questions)
    /\ epc' = "run"
    /\ BuildTeam(ResearchAgents, EvaluationTermination)
    /\ UNCHANGED <<client, include_agent_event>>
    /\ UNCHANGED <<questions, results>>
    /\ UNCHANGED <<cvars, mvars, rvars, xvars, qvars, nvars>>

\* run_evaluation.py:51-55: team.run_stream(task=task)
EvalRunStream ==
    /\ epc = "run"
    /\ RunStart(ResearchTask(questions[Len(results) + 1]))

\* run_evaluation.py:62-73, 183-198: the run has ended or raised; its entry
\* is appended to results.
EvalCollect ==
    /\ epc = "run"
    /\ team_state \in {"Completed", "Failed"}
    /\ results' = Append(results,
                         run_single_query(questions[Len(results) + 1], team_state,
                                          run_error, message_thread))
    /\ epc' = "next"
    /\ UNCHANGED questions
    /\ UNCHANGED <<cvars, tvars, mvars, rvars, xvars, qvars, nvars>>

\* run_evaluation.py:200-210: the loop is over, the report is written.
EvalReport ==
    /\ epc = "next"
    /\ Len(results) = Len(questions)
    /\ epc' = "done"
    /\ UNCHANGED <<questions, results>>
    /\ UNCHANGED <<cvars, tvars, mvars, rvars, xvars, qvars, nvars>>

\* The completions explored in a batch: a text with and one without the
\* termination text, and single tool calls.
EvalResults == {r \in AllResults : Len(r.calls) <= 1 /\ r.text # "APPROVE"}
EvalRets == SeqsUpTo({"evidence", "raise"}, 1)

NoEval ==
    /\ epc = "none"
    /\ questions = <<>>
    /\ results = <<>>

EvalInit ==
    /\ epc = "start"
    /\ questions \in SeqsUpTo(Queries, max_questions)
    /\ results = <<>>
    /\ env \in {e \in Envs : e.OPENAI_API_KEY \in {"", "sk-live"}}
    /\ mpc = "none"
    /\ research_result = <<>>
    /\ synthesis_task = NoTask
    /\ client = "none"
    /\ include_agent_event \in BOOLEAN
    /\ TeamBuilt(<<>>, EvaluationTermination)

EvalNext ==
    \/ EvalStart
    \/ EvalBuildTeam
    \/ EvalRunStream
    \/ \E r \in EvalResults, rets \in EvalRets : AgentRespond(r, rets)
    \/ \E err \in ModelErrors : AgentFail(err)
    \/ EvalCollect
    \/ EvalReport

--------------------------------------------------------------------------
(* Part 7: cancellation of a run.  No caller in the repository passes a    *)
(* cancellation signal to a run, and NativeGeminiClient.create accepts a   *)
(* cancellation_token that it never reads; the run's reaction to a signal  *)
(* is rendered as the specification of the orchestrator describes it: the  *)
(* signal is looked at when the call in flight has returned, before the    *)
(* next agent is invoked.                                                  *)

\* Whether the run, at a turn boundary, takes notice of the signal.
cancellation_ignored(c) == FALSE
cancellation_observed(c) == c

\* The caller raises the signal while the run is going on.
Cancel ==
    /\ team_state = "Running"
    /\ ~cancelled
    /\ cancelled' = TRUE
    /\ UNCHANGED discarded
    /\ UNCHANGED <<cvars, tvars, mvars, rvars, evars, qvars, nvars>>

\* The call in flight returns after the signal: what it returns is dropped
\* and the run stops with the transcript as it is.
CancelObserved ==
    /\ team_state = "Running"
    /\ cancellation_observed(cancelled)
    /\ team_state' = "Stopped"
    /\ current_speaker' = 0
    /\ discarded' = discarded + 1
    /\ UNCHANGED cancelled
    /\ UNCHANGED <<client, include_agent_event, participants, termination,
                   message_thread, next_speaker_index, message_count,
                   text_terminated, invoked, response, run_error>>
    /\ UNCHANGED <<cvars, mvars, rvars, evars, qvars, nvars>>

\* The turns of a run on which no signal has been taken notice of.
RespondUncancelled(r, rets) ==
    /\ ~cancellation_observed(cancelled)
    /\ AgentRespond(r, rets)

FailUncancelled(err) ==
    /\ ~cancellation_observed(cancelled)
    /\ AgentFail(err)

NoCancel ==
    /\ cancelled = FALSE
    /\ discarded = 0

\* One run of one of the program's teams, which the caller may cancel.
CancelInit ==
    /\ client \in {"openai", "gemini"}
    /\ include_agent_event \in BOOLEAN
    /\ \E team \in ProgramTeams : TeamBuilt(team[1], team[2])

CancelNext ==
    \/ \E q \in Queries : RunStart(ResearchTask(q))
    \/ \E r \in AllResults, rets \in AllRets : RespondUncancelled(r, rets)
    \/ \E err \in ModelErrors : FailUncancelled(err)
    \/ Cancel
    \/ CancelObserved

--------------------------------------------------------------------------
(* Part 8: the messages of a request (native_gemini_client.py:75-95).      *)

\* messages of one create call
MaxMessages == 3

\* The messages create may be called with (autogen_core.models LLMMessage):
\*   SystemMessage(content: str)
\*   UserMessage(content: str, or a list of str and Image parts)
\*   AssistantMessage(content: str, or a list of FunctionCall)
\*   FunctionExecutionResultMessage(content: list of results)
\* parts holds the str content, or the parts of a list content.
LLMMessages ==
    [type : {"SystemMessage"}, content_kind : {"str"}, parts : {<<"s1">>, <<"s2">>, <<"">>}]
    \cup [type : {"UserMessage"}, content_kind : {"str"}, parts : {<<"u1">>, <<"u2">>}]
    \cup [type : {"UserMessage"}, content_kind : {"list"},
          parts : {<<"u3", "<image>">>, <<"<image>">>}]
    \cup [type : {"AssistantMessage"}, content_kind : {"str"}, parts : {<<"a1">>}]
    \cup [type : {"AssistantMessage"}, content_kind : {"list"}, parts : {<<"<call 1>">>}]
    \cup [type : {"FunctionExecutionResultMessage"}, content_kind : {"list"},
          parts : {<<"<result 1>">>}]

\* [p for p in content if isinstance(p, str)], then "".join: the str parts
\* in order.
RECURSIVE text_parts(_)
text_parts(parts) ==
    IF parts = <<>> THEN <<>>
    ELSE (IF Head(parts) \in {"<image>", "<call 1>", "<result 1>"} THEN <<>>
          ELSE <<Head(parts)>>) \o text_parts(Tail(parts))

\* What the body of the loop appends to gemini_contents for one message:
\* an entry, or nothing.
converted_inline(msg) ==
    IF msg.type = "SystemMessage"
    THEN <<[role |-> "system", text |-> msg.parts]>>
    ELSE IF msg.type = "UserMessage"
    THEN <<[role |-> "user", text |-> text_parts(msg.parts)]>>
    ELSE <<[role |-> "model", text |-> msg.parts]>>
converted(msg) ==
    IF msg.type = "UserMessage"
    THEN <<[role |-> "user",
            text |-> IF msg.content_kind = "str" THEN msg.parts
                     ELSE text_parts(msg.parts)]>>
    ELSE IF msg.type = "AssistantMessage" /\ msg.content_kind = "str"
    THEN <<[role |-> "model", text |-> msg.parts]>>
    ELSE <<>>

NoInstruction == <<"None">>

\* One pass of `for msg in messages` (lines 79-95).
ConvertMessage ==
    /\ msg_index < Len(messages)
    /\ msg_index' = msg_index + 1
    /\ LET msg == messages[msg_index + 1] IN
       /\ system_instruction' = IF msg.type = "SystemMessage" THEN msg.parts
                                ELSE system_instruction
       /\ gemini_contents' = gemini_contents \o converted(msg)
    /\ UNCHANGED <<messages, payload>>
    /\ UNCHANGED <<cvars, tvars, mvars, rvars, evars, xvars, nvars>>

\* A key the request body does not have.
Absent == <<"<absent>">>
NoPayload == [built |-> FALSE, contents |-> <<>>, system_instruction |-> Absent]

\* `if system_instruction:` (line 139): None is false; the dict the loop
\* builds for a SystemMessage has a key, so it is true whatever the text.
truthy(instruction) == instruction # NoInstruction

\* The request body (lines 129-140), once the loop is over.
BuildPayload ==
    /\ msg_index = Len(messages)
    /\ ~payload.built
    /\ payload' = [built |-> TRUE,
                   contents |-> gemini_contents,
                   system_instruction |-> IF truthy(system_instruction)
                                          THEN system_instruction ELSE Absent]
    /\ UNCHANGED <<messages, msg_index, gemini_contents, system_instruction>>
    /\ UNCHANGED <<cvars, tvars, mvars, rvars, evars, xvars, nvars>>

NoConvert ==
    /\ messages = <<>>
    /\ msg_index = 0
    /\ gemini_contents = <<>>
    /\ system_instruction = NoInstruction
    /\ payload = NoPayload

\* create is called with a list of messages (lines 75-77).
ConvertInit ==
    /\ messages \in SeqsUpTo(LLMMessages, MaxMessages)
    /\ msg_index = 0
    /\ gemini_contents = <<>>
    /\ system_instruction = NoInstruction
    /\ payload = NoPayload

ConvertNext ==
    \/ ConvertMessage
    \/ BuildPayload

--------------------------------------------------------------------------
(* Part 9: the tool declarations of a request                              *)
(* (native_gemini_client.py:96-127).                                       *)

\* keys of one schema object
MaxKeys == 2

\* A JSON value: a dict, a list or a scalar.
Dict(f) == [kind |-> "dict", v |-> f]
List(seq) == [kind |-> "list", v |-> seq]
Scalar(x) == [kind |-> "scalar", v |-> x]

\* The keys of a parameter schema, as pydantic generates them for a tool:
\* those with a scalar value, "anyOf" with a list of schemas, "items" with a
\* schema.
ScalarKeys == {"title", "additionalProperties", "strict", "type"}
SchemaKeys == ScalarKeys \cup {"anyOf", "items"}

ScalarValue(k) ==
    CASE k = "title" -> "Query"
      [] k = "additionalProperties" -> "false"
      [] k = "strict" -> "true"
      [] OTHER -> "string"

KeySets(K) == {D \in SUBSET K : Cardinality(D) <= MaxKeys}

\* The schemas with the given value sets for "anyOf" and "items".
SchemasOver(lists, dicts) ==
    LET ValuesOf(k) == IF k \in ScalarKeys THEN {Scalar(ScalarValue(k))}
                       ELSE IF k = "anyOf" THEN lists ELSE dicts
        Values == UNION {ValuesOf(k) : k \in SchemaKeys}
    IN {Dict(f) : f \in UNION {{g \in [D -> Values] : \A k \in D : g[k] \in ValuesOf(k)}
                               : D \in KeySets(SchemaKeys)}}

LeafSchemas == SchemasOver({}, {})
Schemas == SchemasOver({List(<<leaf>>) : leaf \in LeafSchemas}, LeafSchemas)

\* k not in ["title", "additionalProperties", "strict"] (line 105)
Rejected == {"title", "additionalProperties", "strict"}

\* clean_schema (lines 99-106): a value that is not a dict is returned as
\* it is; a dict loses the rejected keys and has its values cleaned.
RECURSIVE clean_schema(_)
clean_schema(schema) ==
    IF schema.kind # "dict" THEN schema
    ELSE Dict([k \in DOMAIN schema.v \ Rejected |-> clean_schema(schema.v[k])])

\* One pass of `for t in tools` (lines 109-124): the declaration of the
\* next tool, with its parameters cleaned.
DeclareTool ==
    /\ Len(function_declarations) < Len(tools)
    /\ LET t == tools[Len(function_declarations) + 1] IN
       function_declarations' =
           Append(function_declarations,
                  [name |-> t.name, parameters |-> clean_schema(t.parameters)])
    /\ UNCHANGED tools
    /\ UNCHANGED <<cvars, tvars, mvars, rvars, evars, xvars, qvars, svars, lvars>>

NoSchema ==
    /\ tools = <<>>
    /\ function_declarations = <<>>

\* create is called with the tools of an agent (line 64).
SchemaInit ==
    /\ tools \in {<<[name |-> "retrieve_legal_documents", parameters |-> schema]>>
                  : schema \in Schemas}
    /\ function_declarations = <<>>

SchemaNext == DeclareTool

--------------------------------------------------------------------------
(* Part 10: create_stream (native_gemini_client.py:215-226).               *)

\* `yield result.content` (line 226): the one chunk is the content of the
\* result create returned.
stream_chunks_eager(result) ==
    <<[content_kind |-> "str", text |-> "", calls |-> <<>>],
      [content_kind |-> result.content_kind, text |-> result.text, calls |-> result.calls]>>
stream_chunks(result) ==
    <<[content_kind |-> result.content_kind, text |-> result.text, calls |-> result.calls]>>

\* The consumer asks the generator for its first item: the body runs up to
\* `await self.create(...)` (line 225).
StreamCall ==
    /\ spc = "idle"
    /\ CreateEnter
    /\ spc' = "awaiting"
    /\ UNCHANGED <<emitted, stream_error>>
    /\ UNCHANGED <<tvars, mvars, rvars, evars, xvars, qvars, hvars, lvars>>

\* create has returned a result: line 226 yields.
StreamYield ==
    /\ spc = "awaiting"
    /\ cpc = "done"
    /\ outcome.kind = "result"
    /\ emitted' = emitted \o stream_chunks(outcome.result)
    /\ spc' = "yielded"
    /\ cpc' = "idle"
    /\ UNCHANGED stream_error
    /\ UNCHANGED <<attempt_number, sleep, delays, attempts, data, outcome, ncalls>>
    /\ UNCHANGED <<tvars, mvars, rvars, evars, xvars, qvars, hvars, lvars>>

\* The consumer asks for the next item: the body ends after line 226.
StreamEnd ==
    /\ spc = "yielded"
    /\ spc' = "finished"
    /\ UNCHANGED <<emitted, stream_error>>
    /\ UNCHANGED <<cvars, tvars, mvars, rvars, evars, xvars, qvars, hvars, lvars>>

\* create has raised: the exception leaves the generator at line 225.
StreamRaise ==
    /\ spc = "awaiting"
    /\ cpc = "done"
    /\ outcome.kind = "error"
    /\ stream_error' = outcome.error
    /\ spc' = "failed"
    /\ cpc' = "idle"
    /\ UNCHANGED emitted
    /\ UNCHANGED <<attempt_number, sleep, delays, attempts, data, outcome, ncalls>>
    /\ UNCHANGED <<tvars, mvars, rvars, evars, xvars, qvars, hvars, lvars>>

NoStream ==
    /\ spc = "idle"
    /\ emitted = <<>>
    /\ stream_error = "none"

StreamInit == NoStream

StreamNext ==
    \/ StreamCall
    \/ \E t \in Transports : ApiRequest(t)
    \/ Sleep
    \/ Parse
    \/ StreamYield
    \/ StreamEnd
    \/ StreamRaise

--------------------------------------------------------------------------
(* Part 11: create calls of concurrent tasks on one event loop, sharing    *)
(* one client (native_gemini_client.py:25-59, 61-213, 229-253).            *)

\* tasks on the event loop
MaxTasks == 2

Tasks == 1..MaxTasks

\* RequestUsage(prompt_tokens, completion_tokens)
RequestUsage(p, c) == [prompt_tokens |-> p, completion_tokens |-> c]

\* The usage a response reports (lines 189-192): the counts of its
\* usageMetadata, 0 for a count it does not give.
Usages == {RequestUsage(0, 0), RequestUsage(3, 2)}

\* What the backend may do on one attempt: answer with a body that parses
\* and reports a usage, throttle, or fail otherwise.
LoopTransports ==
    [kind : {"ok"}, usage : Usages]
    \cup [kind : {"throttled", "error"}, usage : {RequestUsage(0, 0)}]

\* The usage counter of the client after create has built a result with
\* request_usage (lines 192-205): create does not touch self._total_usage.
usage_added(total, request_usage) ==
    RequestUsage(total.prompt_tokens + request_usage.prompt_tokens,
                 total.completion_tokens + request_usage.completion_tokens)
usage_after(total, request_usage) == total

\* The positions at which a task gives the event loop back.  create is an
\* async def with no await in its body: requests.post (line 36) and the
\* time.sleep of the retry layer block the thread, so a task inside create
\* keeps the loop; it can give it back only outside create.
suspends_in_backoff(pc) == pc \in {"sleep", "returned", "raised"}
suspends(pc) == pc \in {"returned", "raised"}

\* The event loop picks a task that has not ended.
Schedule(t) ==
    /\ running = 0
    /\ task_pc[t] # "finished"
    /\ running' = t
    /\ UNCHANGED <<task_pc, task_attempt, task_calls, total_usage, returned_usage>>
    /\ UNCHANGED <<cvars, tvars, mvars, rvars, evars, xvars, qvars, hvars, svars>>

\* The running task calls create (line 61).
LoopCreateCall(t) ==
    /\ running = t
    /\ task_pc[t] = "ready"
    /\ task_calls[t] < MaxCalls
    /\ task_pc' = [task_pc EXCEPT ![t] = "request"]
    /\ task_attempt' = [task_attempt EXCEPT ![t] = 1]
    /\ task_calls' = [task_calls EXCEPT ![t] = @ + 1]
    /\ UNCHANGED <<running, total_usage, returned_usage>>
    /\ UNCHANGED <<cvars, tvars, mvars, rvars, evars, xvars, qvars, hvars, svars>>

\* One transport attempt of the running task's call, and what follows it:
\* the result is built and returned (lines 149-205), the retry layer decides
\* to wait, or an error leaves create.  The retry state ends with the call.
LoopAttempt(t, a) ==
    /\ running = t
    /\ task_pc[t] = "request"
    /\ IF a.kind = "ok"
       THEN /\ task_pc' = [task_pc EXCEPT ![t] = "returned"]
            /\ task_attempt' = [task_attempt EXCEPT ![t] = 0]
            /\ total_usage' = usage_after(total_usage, a.usage)
            /\ returned_usage' = usage_added(returned_usage, a.usage)
       ELSE IF a.kind = "throttled" /\ ~stop_after_attempt(task_attempt[t])
       THEN /\ task_pc' = [task_pc EXCEPT ![t] = "sleep"]
            /\ UNCHANGED <<task_attempt, total_usage, returned_usage>>
       ELSE /\ task_pc' = [task_pc EXCEPT ![t] = "raised"]
            /\ task_attempt' = [task_attempt EXCEPT ![t] = 0]
            /\ UNCHANGED <<total_usage, returned_usage>>
    /\ UNCHANGED <<running, task_calls>>
    /\ UNCHANGED <<cvars, tvars, mvars, rvars, evars, xvars, qvars, hvars, svars>>

\* The wait of the retry layer is over; the next attempt starts.
LoopSleep(t) ==
    /\ running = t
    /\ task_pc[t] = "sleep"
    /\ task_pc' = [task_pc EXCEPT ![t] = "request"]
    /\ task_attempt' = [task_attempt EXCEPT ![t] = @ + 1]
    /\ UNCHANGED <<running, task_calls, total_usage, returned_usage>>
    /\ UNCHANGED <<cvars, tvars, mvars, rvars, evars, xvars, qvars, hvars, svars>>

\* The running task reaches a suspension point and gives the loop back.
\* After create it goes on to its next call, or ends; a task suspended
\* anywhere else resumes where it was.
Suspend(t) ==
    /\ running = t
    /\ suspends(task_pc[t])
    /\ running' = 0
    /\ \E next \in {"ready", "finished"} :
          task_pc' = [task_pc EXCEPT ![t] = IF @ = "sleep" THEN @ ELSE next]
    /\ UNCHANGED <<task_attempt, task_calls, total_usage, returned_usage>>
    /\ UNCHANGED <<cvars, tvars, mvars, rvars, evars, xvars, qvars, hvars, svars>>

NoLoop ==
    /\ running = 0
    /\ task_pc = [t \in Tasks |-> "finished"]
    /\ task_attempt = [t \in Tasks |-> 0]
    /\ task_calls = [t \in Tasks |-> 0]
    /\ total_usage = RequestUsage(0, 0)
    /\ returned_usage = RequestUsage(0, 0)

\* The client is built (lines 25-29) and the tasks are created.
LoopInit ==
    /\ running = 0
    /\ task_pc = [t \in Tasks |-> "ready"]
    /\ task_attempt = [t \in Tasks |-> 0]
    /\ task_calls = [t \in Tasks |-> 0]
    /\ total_usage = RequestUsage(0, 0)
    /\ returned_usage = RequestUsage(0, 0)

LoopNext ==
    \/ \E t \in Tasks : Schedule(t)
    \/ \E t \in Tasks : LoopCreateCall(t)
    \/ \E t \in Tasks, a \in LoopTransports : LoopAttempt(t, a)
    \/ \E t \in Tasks : LoopSleep(t)
    \/ \E t \in Tasks : Suspend(t)

\* The variables of Part 9 and later while the part is not in use.
NoNew == NoSchema /\ NoStream /\ NoLoop

\* The variables of Part 5 and later while the part is not in use.
NoOther == ToolsInit /\ NoEval /\ NoCancel /\ NoConvert /\ NoNew

\* One client on which create is called, no team.
InitCreate == CreateInit /\ NoTeam /\ NoMain /\ NoOther

SpecCreate == InitCreate /\ [][CreateNext]_vars

\* One run of one team.
InitTeam == CreateInit /\ TeamInit /\ NoMain /\ NoOther

SpecTeam == InitTeam /\ [][TeamNext]_vars

\* The two-phase workflow of main.
InitMain == CreateInit /\ MainInit /\ NoOther

SpecMain == InitMain /\ [][MainNext]_vars

\* Calls of the two capabilities.
InitTools == CreateInit /\ NoTeam /\ NoMain /\ ToolsInit /\ NoEval /\ NoCancel /\ NoConvert /\ NoNew

SpecTools == InitTools /\ [][ToolsNext]_vars

\* One evaluation batch.
InitEval == CreateInit /\ ToolsInit /\ EvalInit /\ NoCancel /\ NoConvert /\ NoNew

SpecEval == InitEval /\ [][EvalNext]_vars

\* One run that the caller may cancel.
InitCancel == CreateInit /\ CancelInit /\ NoMain /\ NoOther

SpecCancel == InitCancel /\ [][CancelNext]_vars

\* The conversion of the messages of one create call.
InitConvert == CreateInit /\ NoTeam /\ NoMain /\ ToolsInit /\ NoEval /\ NoCancel /\ ConvertInit /\ NoNew

SpecConvert == InitConvert /\ [][ConvertNext]_vars

\* The declaration of the tools of one create call.
InitSchema == CreateInit /\ NoTeam /\ NoMain /\ ToolsInit /\ NoEval /\ NoCancel /\ NoConvert /\ SchemaInit /\ NoStream /\ NoLoop

SpecSchema == InitSchema /\ [][SchemaNext]_vars

\* One create_stream call.
InitStream == CreateInit /\ NoTeam /\ NoMain /\ ToolsInit /\ NoEval /\ NoCancel /\ NoConvert /\ NoSchema /\ StreamInit /\ NoLoop

SpecStream == InitStream /\ [][StreamNext]_vars

\* Concurrent tasks calling create on one client.
InitLoop == CreateInit /\ NoTeam /\ NoMain /\ ToolsInit /\ NoEval /\ NoCancel /\ NoConvert /\ NoSchema /\ NoStream /\ LoopInit

SpecLoop == InitLoop /\ [][LoopNext]_vars

--------------------------------------------------------------------------
(* Claims about create and its retry layer, checked under SpecCreate.      *)

Throttled(i) == attempts[i].kind = "response" /\ attempts[i].status = 429
Succeeded(i) == attempts[i].kind = "response" /\ attempts[i].status = 200
FailedOther(i) == ~Throttled(i) /\ ~Succeeded(i)
AllThrottled == Len(attempts) > 0 /\ \A i \in 1..Len(attempts) : Throttled(i)
CallOver == cpc \in {"done", "idle"} /\ ncalls > 0

\* C1: when the backend answers every attempt of a create call with 429,
\* create makes exactly 5 attempts and then fails with a backend error; the
\* caller never observes the rate-limit error or the retry layer's wrapper
\* of it.
C1_ThrottledCallFailsWithBackendError ==
    (CallOver /\ AllThrottled) =>
        /\ Len(attempts) = StopAfterAttempt
        /\ outcome.kind = "error"
        /\ outcome.error \in RequestExceptions
        /\ outcome.error \notin {"RateLimitError", "RetryError"}

\* The part of C1 the code keeps: five attempts, never a sixth.
C1_FiveAttemptsNoSixth ==
    /\ Len(attempts) <= StopAfterAttempt
    /\ (CallOver /\ AllThrottled) =>
          Len(attempts) = StopAfterAttempt /\ outcome.kind = "error"

\* C2: for every k in 0..4, when the first k attempts are throttled and
\* attempt k+1 succeeds, the retry layer hands create the body of that
\* attempt, create's outcome is the parse of that body, and the waits slept
\* are the first k of 2, 4, 8, 16: the wait before retry N is
\* min(60, 2 * 2^(N-1)).
C2_RetryThenSuccess ==
    \A k \in 0..4 :
        ( /\ Len(attempts) = k + 1
          /\ \A i \in 1..k : Throttled(i)
          /\ Succeeded(k + 1)
          /\ cpc # "request" ) =>
            /\ delays = SubSeq(<<2, 4, 8, 16>>, 1, k)
            /\ \A N \in 1..k : delays[N] = Min2(60, 2 * 2^(N - 1))
            /\ data = attempts[k + 1].body
            /\ CallOver =>
                  /\ outcome.body = attempts[k + 1].body
                  /\ outcome.kind = "result" <=> ~ParseRaises(attempts[k + 1].body)
                  /\ outcome.kind = "error" => outcome.error = "ValueError"

C2_Witness ==
    /\ Len(attempts) = 5
    /\ \A i \in 1..4 : Throttled(i)
    /\ Succeeded(5)
    /\ cpc = "done"
    /\ outcome.kind = "result"
    /\ delays = <<2, 4, 8, 16>>

\* C3: an attempt that fails with anything but the throttling status is the
\* last attempt of its call: no attempt and no wait follows it, and its
\* error is what create raises, also after throttled attempts.
C3_OtherErrorsNotRetried ==
    \A i \in 1..Len(attempts) :
        FailedOther(i) =>
            /\ i = Len(attempts)
            /\ Len(delays) = i - 1
            /\ CallOver
            /\ outcome.kind = "error"
            /\ outcome.error =
                  (IF attempts[i].kind = "ConnectionError"
                   THEN "ConnectionError" ELSE "HTTPError")

C3_Witness ==
    /\ Len(attempts) = 3
    /\ Throttled(1) /\ Throttled(2)
    /\ attempts[3].kind = "response" /\ attempts[3].status = 503
    /\ cpc = "done"
    /\ outcome.error = "HTTPError"
    /\ delays = <<2, 4>>

--------------------------------------------------------------------------
(* Claims about the team run and the agent turn, checked under SpecTeam.   *)

MaxN_ == termination.max_messages
NumAgents == Len(participants)
Appended == Len(message_thread) - 1
CountedThread == Counted(message_thread)
MentionSeen == \E i \in 1..Len(message_thread) : message_thread[i].mention
NoEvents == \A i \in 1..Len(message_thread) : message_thread[i].type \in ChatTypes
\* The messages the latest evaluation of the condition was called on.
LastDelta ==
    IF response = NoResponse THEN message_thread ELSE Delta(response)

\* C4 as claimed: under MaxMessages(n) a run never holds more than n
\* messages appended after the seed and stops with exactly n.
C4_StopsAtNAppended ==
    termination.kind = "max" =>
        /\ Appended <= MaxN_
        /\ team_state = "Completed" => Appended = MaxN_

\* C4 as amended: MaxMessages(n) counts the seed.  While the run goes on
\* the transcript holds fewer than n counted messages; it stops at the
\* first turn boundary at which it holds n or more, which is exactly n
\* when every turn adds one counted message; no run takes more than n - 1
\* turns.  With agents [A, B], one message per turn and n = 3 it stops after
\* B's first message (2 appended); the synthesis team stops after the
\* Synthesizer's first message (1 appended).
C4_StopsAtNCountingSeed ==
    termination.kind = "max" =>
        /\ team_state = "Running" => CountedThread < MaxN_
        /\ Len(invoked) <= MaxN_ - 1
        /\ team_state = "Completed" =>
             /\ CountedThread >= MaxN_
             /\ CountedThread - Counted(LastDelta) < MaxN_
             /\ ~include_agent_event => CountedThread = MaxN_
             /\ NoEvents => Len(message_thread) = MaxN_ /\ Appended = MaxN_ - 1
             /\ (NumAgents = 2 /\ MaxN_ = 3 /\ NoEvents) =>
                    invoked = <<0, 1>> /\ Appended = 2
             /\ (participants = SynthesisAgents /\ termination = SynthesisTermination) =>
                    invoked = <<0>> /\ Appended = 1

C4_Witness ==
    /\ termination.kind = "max" /\ MaxN_ = 3 /\ NumAgents = 2
    /\ team_state = "Completed"
    /\ invoked = <<0, 1>>
    /\ Appended = 2

\* C5 as claimed: under Or(TextMention("APPROVE"), MaxMessages(n)) a run in
\* which no message contains "APPROVE" stops at exactly n appended messages.
C5_NoApproveStopsAtNAppended ==
    (termination.kind = "or" /\ ~MentionSeen /\ team_state = "Completed") =>
        Appended = MaxN_

\* C5 as amended: such a run takes at most n - 1 turns and stops when the
\* transcript, seed included, holds n counted messages (at the first turn
\* boundary with n or more); with one message per turn the research phase
\* (4 agents, n = 12) stops at 11 appended messages and an evaluation run
\* (n = 8) at 7.
C5_NoApproveStopsAtNCountingSeed ==
    (termination.kind = "or" /\ ~MentionSeen) =>
        /\ team_state = "Running" => CountedThread < MaxN_
        /\ Len(invoked) <= MaxN_ - 1
        /\ team_state = "Completed" =>
             /\ CountedThread >= MaxN_
             /\ CountedThread - Counted(LastDelta) < MaxN_
             /\ ~include_agent_event => CountedThread = MaxN_
             /\ NoEvents => Appended = MaxN_ - 1
             /\ (NoEvents /\ participants = ResearchAgents
                   /\ termination = ResearchTermination) => Appended = 11
             /\ (NoEvents /\ participants = ResearchAgents
                   /\ termination = EvaluationTermination) => Appended = 7

C5_Witness ==
    /\ participants = ResearchAgents /\ termination = ResearchTermination
    /\ ~MentionSeen
    /\ team_state = "Completed"
    /\ Appended = 11

\* C6 as claimed: with And(TextMention("APPROVE"), MaxMessages(2)) and
\* "APPROVE" in message 1, the count is met only at message 3, where the run
\* stops.
C6_StopsAtMessage3 ==
    (termination.kind = "and" /\ MaxN_ = 2 /\ team_state = "Completed"
       /\ NoEvents /\ message_thread[1].mention) =>
        Len(message_thread) = 3

\* C6 as amended: And(TextMention("APPROVE"), MaxMessages(n)) is a latch: the
\* run stops at the first evaluation at which the text has appeared in some
\* message so far and the count has reached n, and not before.  The count
\* includes the seed: with "APPROVE" in message 1 (the seed) and one message
\* per turn the run stops at message n and not at message 1, that is at
\* message 2 under MaxMessages(2) and at message 3 under MaxMessages(3).
C6_AndIsALatch ==
    termination.kind = "and" =>
        /\ team_state = "Completed" =>
             /\ MentionSeen /\ CountedThread >= MaxN_
             /\ Len(message_thread) > Len(LastDelta) =>
                  ~(\E i \in 1..(Len(message_thread) - Len(LastDelta)) :
                        message_thread[i].mention)
                  \/ CountedThread - Counted(LastDelta) < MaxN_
             /\ (NoEvents /\ message_thread[1].mention) =>
                  Len(message_thread) = MaxN_
        /\ team_state = "Running" => ~(MentionSeen /\ CountedThread >= MaxN_)
        /\ (Len(message_thread) = 1 /\ message_thread[1].mention /\ MaxN_ >= 2) =>
             team_state # "Completed"

C6_Witness ==
    /\ termination.kind = "and" /\ MaxN_ = 3
    /\ team_state = "Completed"
    /\ Len(message_thread) = 3
    /\ message_thread[1].mention
    /\ ~message_thread[2].mention /\ ~message_thread[3].mention

\* C7: the agents are invoked in the order of the list, again and again:
\* invocation i (from 0) goes to agent i mod m, after k full cycles every
\* agent has been invoked k times, and between two invocations of an agent
\* every other agent is invoked once.
TimesInvoked(a, upto) == Cardinality({i \in 1..upto : invoked[i] = a})

C7_RoundRobin ==
    /\ \A i \in 1..Len(invoked) : invoked[i] = (i - 1) % NumAgents
    /\ \A k \in 0..Len(invoked) :
         k * NumAgents <= Len(invoked) =>
            \A a \in 0..(NumAgents - 1) : TimesInvoked(a, k * NumAgents) = k
    /\ \A i, j \in 1..Len(invoked) :
         (i < j /\ invoked[i] = invoked[j]) =>
            \A b \in 0..(NumAgents - 1) \ {invoked[i]} :
               \E l \in (i + 1)..(j - 1) : invoked[l] = b

C7_Witness ==
    /\ NumAgents = 4
    /\ Len(invoked) = 8
    /\ team_state = "Running"

\* C9 as claimed: a completion with j >= 1 tool calls makes the turn yield j
\* tool results, the i-th with the id of the i-th call, followed by a final
\* assistant message obtained from a second create call.
C9_ToolResultsThenSecondCreate ==
    response.calls # <<>> =>
        /\ Len(response.results) = Len(response.calls)
        /\ \A i \in 1..Len(response.calls) :
              response.results[i].call_id = response.calls[i].id
        /\ response.ncreate = 2
        /\ response.chat_type = "TextMessage"

\* The part of C9 the code keeps: one result per call, in call order.
C9_ResultsInCallOrder ==
    response.calls # <<>> =>
        /\ Len(response.results) = Len(response.calls)
        /\ \A i \in 1..Len(response.calls) :
              response.results[i].call_id = response.calls[i].id

\* C10: when a capability call of a turn raises, the turn still completes:
\* the call's result is an error description under the call's id, no
\* exception leaves the turn, its messages are appended, and the run goes
\* on with the next agent unless the condition stops it.
CallRaises(i) ==
    \/ response.calls[i].name \notin Tools(response.agent)
    \/ response.rets[i] = "raise"

C10_CapabilityFailureIsSoft ==
    \A i \in 1..Len(response.calls) :
        CallRaises(i) =>
            /\ response.results[i].is_error
            /\ response.results[i].call_id = response.calls[i].id
            /\ response.results[i].content \in {"Error: raised", "Error: tool not available"}
            /\ response.content[i] = response.results[i].content
            /\ ~response.raised
            /\ run_error # "ToolError"
            /\ Len(message_thread) >= 4
            /\ SubSeq(message_thread, Len(message_thread) - 2, Len(message_thread))
                 = Delta(response)
            /\ team_state = "Running" =>
                 /\ current_speaker # 0
                 /\ participants[current_speaker] # response.agent \/ NumAgents = 1

C10_Witness ==
    /\ Len(response.calls) = 2
    /\ response.rets[1] = "raise"
    /\ response.rets[2] = "evidence"
    /\ response.results[1].is_error
    /\ ~response.results[2].is_error
    /\ team_state = "Running"
    /\ participants[current_speaker] = "Analyzer_Agent"

--------------------------------------------------------------------------
(* Claims about the workflow of main, checked under SpecMain.              *)

\* C8: the task that seeds the synthesis phase holds the original query and
\* the full content of the research phase's final transcript.
C8_SynthesisSeedHasResearch ==
    mpc \in {"synthesis", "done"} =>
        /\ synthesis_task.query = Query
        /\ synthesis_task.transcript = research_result
        /\ research_result # <<>>

\* The messages a step appends to the transcript.
Added == SubSeq(message_thread', Len(message_thread) + 1, Len(message_thread'))

\* C19: the transcript of a run starts with the one seed message (source
\* "user", a text) and is append-only: every step leaves it a prefix of its
\* later value, and what a step appends are the messages of the agent whose
\* turn it was.
C19_TranscriptAppendOnly ==
    /\ [](team_state # "Idle" =>
            /\ message_thread # <<>>
            /\ message_thread[1].source = "user"
            /\ message_thread[1].type = "TextMessage"
            /\ \A i \in 2..Len(message_thread) :
                  /\ message_thread[i].source # "user"
                  /\ \E a \in 1..Len(participants) :
                        participants[a] = message_thread[i].source)
    /\ [](team_state = "Idle" => message_thread = <<>>)
    /\ [][/\ Len(message_thread') >= Len(message_thread)
          /\ SubSeq(message_thread', 1, Len(message_thread)) = message_thread
          /\ (message_thread # <<>> /\ message_thread' # message_thread) =>
                /\ response' # response \/ Added = Delta(response)
                /\ Added = Delta(response')
                /\ response'.agent = participants[current_speaker]]_vars

C19_Witness ==
    /\ team_state = "Completed"
    /\ Len(message_thread) = 6
    /\ message_thread[1].source = "user"
    /\ message_thread[5].type = "ToolCallSummaryMessage"
    /\ message_thread[6].mention

--------------------------------------------------------------------------
(* Claims about the capabilities, checked under SpecTools.                 *)

\* The underlying call of the capability fails: the connection fails, the
\* service answers with an error status, or the body cannot be parsed.
UnderlyingCallFails ==
    IF tool_call.name = "retrieve_legal_documents"
    THEN \/ tool_backend.kind # "response"
         \/ tool_backend.status >= 400
         \/ tool_backend.body.json # "dict"
         \/ \E i \in 1..Len(tool_backend.body.docs) :
               \/ tool_backend.body.docs[i].shape # "dict"
               \/ tool_backend.body.docs[i].content = "null"
    ELSE \/ tool_backend.kind # "results"
         \/ \E i \in 1..Len(tool_backend.results) : tool_backend.results[i] = "no_body"

\* C11: neither capability raises to its caller.  When the underlying call
\* fails, retrieve_legal_documents returns a pack with the given query, no
\* items and total_items = 0, and search_legal_updates returns a message
\* string.
C11_CapabilitiesFailSoft ==
    tool_pc = "done" =>
        /\ tool_result.kind # "raise"
        /\ tool_call.name = "retrieve_legal_documents" =>
             /\ tool_result.kind = "pack"
             /\ tool_result.query = tool_call.query
             /\ tool_result.total_items = Len(tool_result.items)
             /\ UnderlyingCallFails =>
                  tool_result.items = <<>> /\ tool_result.total_items = 0
        /\ tool_call.name = "search_legal_updates" =>
             /\ tool_result.kind = "str"
             /\ UnderlyingCallFails => tool_result.error = "Loi khi search web"

C11_Witness ==
    /\ tool_pc = "done"
    /\ tool_call.name = "retrieve_legal_documents"
    /\ tool_backend.kind = "response"
    /\ tool_backend.status = 500
    /\ tool_result = EvidencePack(tool_call.query, <<>>, 0)

--------------------------------------------------------------------------
(* Claims about the evaluation batch, checked under SpecEval.              *)

\* C12: every query of a batch gets exactly one entry, in input order,
\* whatever runs fail: a run that fails yields an entry with success false,
\* the error as its reason and the messages streamed before the failure,
\* and the queries after it are still run.
C12_EveryQueryHasItsEntry ==
    /\ Len(results) <= Len(questions)
    /\ \A i \in 1..Len(results) :
          /\ results[i].question = questions[i]
          /\ ~results[i].success =>
               /\ results[i].error \in ModelErrors \cup {"ToolError"}
               /\ results[i].error \notin {"", "none"}
               /\ Len(results[i].messages) >= 1
               /\ results[i].messages[1].source = "user"
    /\ (epc = "next" /\ results # <<>>) =>
          LET e == results[Len(results)] IN
          /\ e.success = (team_state = "Completed")
          /\ ~e.success => e.error = run_error
          /\ e.messages = [i \in 1..Len(message_thread) |-> Collected(message_thread[i])]
    /\ (epc = "run" /\ team_state \in {"Idle", "Running"}) =>
          Len(results) < Len(questions)
    /\ epc = "done" => Len(results) = Len(questions)
    /\ (epc \in {"next", "run"} /\ Len(results) < Len(questions)) =>
          ENABLED EvalNext

C12_Witness ==
    /\ epc = "done"
    /\ Len(questions) = 3
    /\ results[1].success
    /\ ~results[2].success
    /\ Len(results[2].messages) = 3
    /\ results[3].success

--------------------------------------------------------------------------
(* Claims about cancellation and the states of a run, checked under        *)
(* SpecCancel.                                                             *)

\* C13: once the cancellation signal is raised no further agent is invoked
\* and no message is appended: the next step of the run is the return of
\* the call in flight, whose result is discarded, and it moves the run to
\* Stopped with the transcript it had when the signal was raised.
C13_CancelStopsTheRun ==
    /\ [][cancelled =>
            /\ invoked' = invoked
            /\ message_thread' = message_thread
            /\ team_state' = "Stopped"
            /\ discarded' = discarded + 1]_vars
    /\ [](team_state = "Stopped" =>
            cancelled /\ current_speaker = 0 /\ discarded = 1)
    /\ []((cancelled /\ team_state # "Stopped") =>
            team_state = "Running" /\ discarded = 0)

C13_Witness ==
    /\ team_state = "Stopped"
    /\ discarded = 1
    /\ Len(message_thread) = 3
    /\ Len(invoked) = 3

\* C18 as claimed: a run is always in one of Idle, Running, Completed and
\* Stopped.
C18_OnlyCompletedOrStopped ==
    team_state \in {"Idle", "Running", "Completed", "Stopped"}

\* C18 as amended: a run moves only along Idle -> Running -> {Completed,
\* Stopped, Failed} (a run whose seed satisfies the condition passes through
\* Running within the step that starts it).  It enters Completed exactly
\* when the condition, evaluated on the messages just appended, signals
\* stop, Stopped exactly when it was cancelled, and Failed when a create
\* call raises; the three are terminal, and in a terminal state no agent is
\* invoked and no message is appended.
C18_RunStateMachine ==
    /\ [](team_state \in {"Idle", "Running", "Completed", "Stopped", "Failed"})
    /\ [][team_state' # team_state =>
            \/ team_state = "Idle" /\ team_state' \in {"Running", "Completed"}
            \/ team_state = "Running"
                 /\ team_state' \in {"Completed", "Stopped", "Failed"}]_vars
    /\ [][(team_state' = "Completed" /\ team_state # "Completed") <=>
            /\ team_state \in {"Idle", "Running"}
            /\ message_thread' # message_thread
            /\ Evaluate(termination, text_terminated, message_count, Added).stop]_vars
    /\ [][(team_state' = "Stopped" /\ team_state # "Stopped") <=>
            (cancelled /\ team_state = "Running")]_vars
    /\ [][(team_state' = "Failed" /\ team_state # "Failed") =>
            (run_error' \in ModelErrors /\ message_thread' = message_thread)]_vars
    /\ [][(team_state \in {"Completed", "Stopped", "Failed"}) =>
            /\ team_state' = team_state
            /\ invoked' = invoked
            /\ message_thread' = message_thread]_vars

C18_Witness ==
    /\ team_state = "Failed"
    /\ run_error = "HTTPError"
    /\ Len(invoked) = 2
    /\ Len(message_thread) = 2

--------------------------------------------------------------------------
(* Further claims about the workflow of main, checked under SpecMain.      *)

\* OPENAI_API_KEY is absent or a placeholder starting with "sk-...", and
\* GEMINI_API_KEY is absent.
NoUsableCredential ==
    /\ env.OPENAI_API_KEY \in {"", "sk-...", "sk-...your-key"}
    /\ env.GEMINI_API_KEY = ""

\* C14: with no usable backend credential get_model_client fails and the
\* workflow never starts: main returns, no agent and no team exists, no
\* run is started and no create call is made; with a usable credential
\* main does not return this way.
C14_NoCredentialNoWorkflow ==
    /\ NoUsableCredential =>
          /\ mpc \in {"start", "exit"}
          /\ get_model_client(env) = "ValueError"
          /\ client = "none"
          /\ participants = <<>>
          /\ team_state = "Idle"
          /\ message_thread = <<>>
          /\ invoked = <<>>
          /\ response = NoResponse
          /\ ncalls = 0
    /\ mpc = "exit" => NoUsableCredential

C14_Witness ==
    /\ mpc = "exit"
    /\ env.OPENAI_API_KEY = "sk-...your-key"
    /\ env.GEMINI_API_KEY = ""

\* C17: the synthesis team is started only after the research run has
\* ended, and only when the research was approved: the research transcript
\* then holds a message with "APPROVE".
C17_SynthesisOnlyAfterApproval ==
    mpc \in {"synthesis", "done"} =>
        /\ research_result # <<>>
        /\ \E i \in 1..Len(research_result) : research_result[i].mention

\* C16: the research phase ends only on a message of the Critic that has
\* "APPROVE" or at the cap of 12 messages; "APPROVE" in a message of any
\* other source does not end it.
C16_OnlyCriticApproves ==
    (mpc = "research" /\ team_state = "Completed") =>
        \/ /\ message_thread[Len(message_thread)].source = "Critic_Agent"
           /\ message_thread[Len(message_thread)].mention
        \/ CountedThread >= ResearchMaxMessages

--------------------------------------------------------------------------
(* Further claims about the team run, checked under SpecTeam.              *)

\* Whether the messages of `thread`, taken as the history of a run, satisfy
\* the run's termination condition.
Satisfies(thread) ==
    LET text == \E i \in 1..Len(thread) : thread[i].mention
        count == Counted(thread) >= MaxN_
    IN  CASE termination.kind = "max" -> count
          [] termination.kind = "or" -> text \/ count
          [] termination.kind = "and" -> text /\ count

\* C15 as claimed: the condition is evaluated after each appended message,
\* so a completed run holds no message after the earliest one that
\* satisfied the condition.
C15_StopsAtEarliestMessage ==
    team_state = "Completed" =>
        \A k \in 1..(Len(message_thread) - 1) :
            ~Satisfies(SubSeq(message_thread, 1, k))

\* C15 as amended: the condition is evaluated on the seed and then once per
\* agent turn, on all the messages the turn returned, after they have been
\* appended.  The run ends at the earliest of these evaluations that is
\* satisfied; the messages of that turn are all in the transcript, also
\* those after the one that satisfied the condition; afterwards no agent is
\* invoked and nothing is appended.  TextMention looks for the keyword as a
\* case-sensitive substring: "APPROVED." has it, "Not approved: revise" has
\* not.
C15_StopsAtEarliestTurn ==
    /\ [](team_state = "Running" => ~Satisfies(message_thread))
    /\ [](team_state = "Completed" =>
            /\ Satisfies(message_thread)
            /\ Len(message_thread) > Len(LastDelta) =>
                 /\ ~Satisfies(SubSeq(message_thread, 1,
                                      Len(message_thread) - Len(LastDelta)))
                 /\ SubSeq(message_thread, Len(message_thread) - Len(LastDelta) + 1,
                           Len(message_thread)) = LastDelta)
    /\ []((response.content = <<"Not approved: revise">> /\ ~response.raised) =>
            ~message_thread[Len(message_thread)].mention)
    /\ []((response.content = <<"APPROVED.">> /\ termination.kind = "or") =>
            team_state = "Completed")
    /\ [][team_state = "Completed" =>
            invoked' = invoked /\ message_thread' = message_thread]_vars

C15_Witness ==
    /\ team_state = "Completed"
    /\ termination.kind = "max"
    /\ Len(LastDelta) = 3
    /\ Satisfies(SubSeq(message_thread, 1, Len(message_thread) - 2))
    /\ ~Satisfies(SubSeq(message_thread, 1, Len(message_thread) - 3))

--------------------------------------------------------------------------
(* Claims about the messages of a request, checked under SpecConvert.      *)

\* The user, assistant and tool-result messages among the first n messages.
RECURSIVE conversational(_)
conversational(n) ==
    IF n = 0 THEN <<>>
    ELSE conversational(n - 1)
         \o (IF messages[n].type # "SystemMessage" THEN <<messages[n]>> ELSE <<>>)

\* C20: every user, assistant and tool-result message of the input is in
\* the request, in the order of the input: once the loop is over the
\* request holds one entry per such message, the i-th entry made of the
\* i-th of them.
C20_NoMessageDropped ==
    msg_index = Len(messages) =>
        LET kept == conversational(Len(messages)) IN
        /\ Len(gemini_contents) = Len(kept)
        /\ \A i \in 1..Len(kept) :
              gemini_contents[i].role =
                 (IF kept[i].type = "UserMessage" THEN "user"
                  ELSE IF kept[i].type = "AssistantMessage" THEN "model"
                  ELSE "function")

\* The system messages of the input, in order.
SystemMessages == SelectSeq(messages, LAMBDA m : m.type = "SystemMessage")

--------------------------------------------------------------------------
(* Claims about the tool declarations, checked under SpecSchema.           *)

\* A schema without its "title" and "additionalProperties" keys at every
\* depth, inside lists too, and with everything else as it was.
RECURSIVE without_metadata(_)
without_metadata(schema) ==
    IF schema.kind = "dict"
    THEN Dict([k \in DOMAIN schema.v \ {"title", "additionalProperties"}
                 |-> without_metadata(schema.v[k])])
    ELSE IF schema.kind = "list"
    THEN List([i \in DOMAIN schema.v |-> without_metadata(schema.v[i])])
    ELSE schema

\* C22: the schema sent for a tool is the tool's parameter schema without
\* its "title" and "additionalProperties" keys at any depth, inside lists
\* too, every other key and value being kept; cleaning it again changes
\* nothing.
C22_SchemaCleaned ==
    \A i \in 1..Len(function_declarations) :
        /\ function_declarations[i].parameters = without_metadata(tools[i].parameters)
        /\ clean_schema(function_declarations[i].parameters)
              = function_declarations[i].parameters

\* The parts of C22 the code keeps: cleaning is idempotent, and no dict
\* reached through dicts only keeps a rejected key.
C22_Idempotent ==
    \A i \in 1..Len(function_declarations) :
        LET sent == function_declarations[i].parameters IN
        /\ clean_schema(sent) = sent
        /\ DOMAIN sent.v \cap Rejected = {}
        /\ "items" \in DOMAIN sent.v => DOMAIN sent.v["items"].v \cap Rejected = {}

--------------------------------------------------------------------------
(* Claims about the parsing of a response, checked under SpecCreate.       *)

\* The parts of a response body that signal a function call, in part order.
FunctionCallParts(body) == SelectSeq(body.parts, LAMBDA part : part.functionCall # NoKey)

\* C23: the tool calls of a CreateResult are the function calls of the
\* response's parts, one per functionCall part, in part order, each with its
\* name, and their ids are pairwise distinct.
C23_ToolCallsOfResult ==
    (CallOver /\ outcome.kind = "result") =>
        LET calls == outcome.result.calls
            signalled == FunctionCallParts(outcome.body)
        IN /\ Len(calls) = Len(signalled)
           /\ \A i \in 1..Len(calls) : calls[i].name = signalled[i].functionCall
           /\ \A i, j \in 1..Len(calls) : calls[i].id = calls[j].id => i = j

\* The part of C23 the code keeps: the list create collects in tool_calls
\* (lines 163-170) has one call per functionCall part, in part order, with
\* distinct ids.
C23_CollectedCalls ==
    (cpc \in {"parse", "done"} /\ ~ParseRaises(data)) =>
        LET calls == function_calls(data.parts, 1)
            signalled == FunctionCallParts(data)
        IN /\ Len(calls) = Len(signalled)
           /\ \A i \in 1..Len(calls) : calls[i].name = signalled[i].functionCall
           /\ \A i, j \in 1..Len(calls) : calls[i].id = calls[j].id => i = j

\* A call whose last attempt got a success status and a body that lacks a
\* field create indexes.
Unparseable ==
    /\ CallOver
    /\ Len(attempts) > 0
    /\ Succeeded(Len(attempts))
    /\ ParseRaises(attempts[Len(attempts)].body)

\* C24 as stated: when a success response lacks an expected field, create
\* fails with the protocol error carrying the raw payload; the failure is
\* none of the backend errors, yields no result, and is never retried.
C24_ProtocolErrorCarriesPayload ==
    Unparseable =>
        /\ outcome.kind = "error"
        /\ outcome.error = "ValueError"
        /\ outcome.args.payload = attempts[Len(attempts)].body
        /\ outcome.result = NoResult

\* C24, amended: when a success response lacks an expected field, create
\* fails with the protocol error (ValueError), which names the missing key
\* or index and carries no payload (the payload is logged); the failure is
\* none of the backend errors, yields no result, and no attempt follows the
\* successful one.
C24_ProtocolErrorNamesField ==
    /\ Unparseable =>
          /\ outcome.kind = "error"
          /\ outcome.error = "ValueError"
          /\ outcome.error \notin RequestExceptions \cup {"RateLimitError", "RetryError"}
          /\ outcome.args.detail \in {"'candidates'", "'content'", "'parts'",
                                      "list index out of range"}
          /\ outcome.args.payload = NoData
          /\ outcome.result = NoResult
    /\ \A i \in 1..Len(attempts) : Succeeded(i) => i = Len(attempts)
    /\ cpc = "parse" => Succeeded(Len(attempts))

C24_Witness ==
    /\ Unparseable
    /\ cpc = "done"
    /\ Len(attempts) = 2
    /\ Throttled(1)
    /\ attempts[2].body.shape = "no_content"
    /\ outcome.error = "ValueError"
    /\ outcome.args.detail = "'content'"

\* C30: the text content of a result is the text of the first part of the
\* response when that part has text, and the empty string otherwise: the
\* text of a later part never contributes, while the function calls are
\* collected from all parts.
C30_ContentIsFirstPartText ==
    (CallOver /\ outcome.kind = "result") =>
        LET parts == outcome.body.parts IN
        /\ outcome.result.content_kind = "str"
        /\ parts[1].text # NoKey => outcome.result.text = parts[1].text
        /\ parts[1].text = NoKey => outcome.result.text = ""
        /\ \A i \in 1..Len(parts) :
              parts[i].functionCall # NoKey =>
                 \E j \in 1..Len(function_calls(parts, 1)) :
                    function_calls(parts, 1)[j] = [id |-> i, name |-> parts[i].functionCall]

C30_Witness ==
    /\ cpc = "done"
    /\ outcome.kind = "result"
    /\ Len(outcome.body.parts) = 2
    /\ outcome.body.parts[1].text = NoKey
    /\ outcome.body.parts[1].functionCall # NoKey
    /\ outcome.body.parts[2].text = "APPROVE"
    /\ outcome.body.parts[2].functionCall # NoKey
    /\ outcome.result.text = ""
    /\ Len(function_calls(outcome.body.parts, 1)) = 2

\* C28: every create call makes at least 1 and at most 5 transport
\* attempts, and the retry state belongs to the call: whatever the earlier
\* calls did, a call starts at attempt 1 with no wait behind it, its
\* attempt number is one more than the waits it has slept, and its waits
\* start again at 2.
C28_RetryStatePerCall ==
    /\ Len(attempts) <= StopAfterAttempt
    /\ CallOver => Len(attempts) >= 1
    /\ (cpc = "request" /\ attempts = <<>>) => (attempt_number = 1 /\ delays = <<>>)
    /\ cpc # "idle" =>
          /\ attempt_number = Len(delays) + 1
          /\ attempt_number \in 1..StopAfterAttempt
          /\ Len(attempts) \in {attempt_number - 1, attempt_number}
    /\ delays # <<>> => delays[1] = 2
    /\ cpc = "sleep" => sleep = wait_exponential(Len(attempts))

C28_Witness ==
    /\ ncalls = 2
    /\ cpc = "sleep"
    /\ Len(attempts) = 1
    /\ attempt_number = 1
    /\ sleep = 2
    /\ delays = <<>>

--------------------------------------------------------------------------
(* Claims about the phases of main, checked under SpecMain.                *)

\* The research run has ended with an error.
ResearchFailed ==
    /\ mpc \in {"research", "crashed"}
    /\ team_state = "Failed"
    /\ synthesis_task = NoTask

\* The synthesis phase has begun: its team and task are built.
SynthesisStarted ==
    \/ mpc \in {"synthesis", "done"}
    \/ synthesis_task # NoTask
    \/ participants = SynthesisAgents

\* C29: when the research phase ends with an error, the synthesis phase is
\* never started: from then on no synthesis team is built or run and the
\* synthesizer is never invoked.
C29_NoSynthesisAfterFailedResearch ==
    [](ResearchFailed => [](~SynthesisStarted /\ team_state = "Failed"))

C29_Witness ==
    /\ mpc = "crashed"
    /\ team_state = "Failed"
    /\ run_error # "none"
    /\ synthesis_task = NoTask
    /\ Len(message_thread) >= 2
    /\ participants = ResearchAgents

--------------------------------------------------------------------------
(* Claims about create_stream, checked under SpecStream.                   *)

\* C25: create_stream makes exactly one create call and emits exactly one
\* chunk, only after that call has completed; the chunk has the content
\* and the tool calls of the result create returns for the response, and
\* when create fails create_stream emits nothing and fails with create's
\* error.
C25_StreamIsCreateInOneChunk ==
    /\ ncalls = (IF spc = "idle" THEN 0 ELSE 1)
    /\ spc = "awaiting" => (emitted = <<>> /\ stream_error = "none")
    /\ spc \in {"yielded", "finished"} =>
          /\ Len(emitted) = 1
          /\ stream_error = "none"
          /\ outcome.kind = "result"
          /\ outcome.result = CreateResult(content_text(outcome.body),
                                           function_calls(outcome.body.parts, 1))
          /\ emitted[1].text = outcome.result.text
          /\ emitted[1].calls = outcome.result.calls
    /\ spc = "failed" =>
          /\ emitted = <<>>
          /\ outcome.kind = "error"
          /\ stream_error = outcome.error

C25_Witness ==
    /\ spc = "finished"
    /\ Len(attempts) = 2
    /\ Len(emitted) = 1
    /\ emitted[1].text = "APPROVE"

\* A failed create under create_stream.
C25_WitnessFailed ==
    /\ spc = "failed"
    /\ stream_error = "RetryError"
    /\ emitted = <<>>

--------------------------------------------------------------------------
(* Claims about concurrent create calls, checked under SpecLoop.           *)

InCreate == {t \in Tasks : task_pc[t] \in {"request", "sleep"}}

\* C27: a create call has no suspension point: a task inside create is the
\* one the loop is running, no two tasks are inside create at once, and
\* while a call is waiting out a backoff no other task takes a step.
C27_CreateNeverYields ==
    [][ /\ Cardinality(InCreate) <= 1
        /\ \A t \in InCreate : running = t
        /\ \A t \in Tasks :
              task_pc[t] = "sleep" =>
                 \A u \in Tasks \ {t} :
                    /\ task_pc'[u] = task_pc[u]
                    /\ task_calls'[u] = task_calls[u]
                    /\ task_attempt'[u] = task_attempt[u] ]_vars

C27_Witness ==
    /\ running = 1
    /\ task_pc[1] = "sleep"
    /\ task_attempt[1] = 2
    /\ task_pc[2] = "ready"
    /\ task_calls[2] = 1

====
